---- MODULE Spec2Model ----
(***************************************************************************)
(* Model of the contract-to-code pipeline of spec-driven-consumer:         *)
(*   - ConsumerGenerator (core/consumer-generator.ts): extractOperations,  *)
(*     inferReturnType, schemaToType, generateForLanguage,                 *)
(*     generateForOperations and the client methods it renders;            *)
(*   - the `implement` command (cli/commands/implement.ts).                *)
(*                                                                         *)
(* Text is modelled as a sequence of tokens (each token an atomic piece of *)
(* text); concatenation is \o and literal replacement works on tokens.     *)
(***************************************************************************)
EXTENDS Integers, Sequences, FiniteSets, TLC

VARIABLES
    pc,                  \* control location of the routine being run
    spec,                \* the loaded contract document (yaml.load result)
    filterOperationIds,  \* extractOperations' optional id filter
    operations,          \* extractOperations' result
    language,            \* target language of the emission
    op,                  \* descriptor whose rendered client method is run
    args,                \* arguments the rendered method is called with
    path,                \* rendered method: local `path`
    query,               \* rendered method: local `query` (StringBuilder)
    response,            \* rendered sendRequest: the HTTP response
    outcome,             \* rendered method: what the call returned or threw
    options,             \* implement: command-line options
    planFile,            \* implement: tasks persisted in the plan file
    plan,                \* implement: plan.tasks in memory
    tasksToImplement,    \* implement: indices (into plan) of selected tasks
    taskIdx,             \* implement: position in tasksToImplement
    generatedCode,       \* file map returned by generateForOperations
    fileIdx,             \* position of the file-writing loop
    outputDir,           \* consumer output directory: file -> content
    events,              \* observable effects so far, in order
    exitCode,            \* process exit code, or "running"
    violations,          \* the list Guardrails.validate returned
    intent,              \* plan: the <intent> argument
    tasks,               \* plan: result of analyzeIntentAndCreateTasks
    planOutput,          \* plan: the file at options.output
    specFile,            \* sync: the local contract file at specPath
    requests,            \* sync: the requests client.get has issued
    data                 \* sync: fetchSpec's local `data`

vars == <<pc, spec, filterOperationIds, operations, language, op, args, path,
          query, response, outcome, options, planFile, plan, tasksToImplement,
          taskIdx, generatedCode, fileIdx, outputDir, events, exitCode,
          violations, intent, tasks, planOutput, specFile, requests, data>>

extractVars == <<spec, filterOperationIds, operations>>
clientVars == <<op, args, path, query, response, outcome>>
implementVars == <<options, planFile, plan, tasksToImplement, taskIdx,
                   generatedCode, fileIdx, outputDir, events, exitCode,
                   violations>>
planVars == <<intent, tasks, planOutput>>
syncVars == <<specFile, requests, data>>

\* JavaScript `undefined` (an absent field or argument).
NoValue == "undefined"

\* Placeholder for a variable the specification at hand does not use.
Unused == "unused"

----------------------------------------------------------------------------
(* Bounds of the model *)

\* Most path-item entries (verb keys and others) in one generated contract.
MaxEntries == 2

\* Longest operation-id filter.
MaxFilter == 2

\* Most tasks in the plan file.
MaxTasks == 2

----------------------------------------------------------------------------
(* Generic helpers *)

Range(s) == {s[i] : i \in 1..Len(s)}

\* Array.prototype.includes
Includes(s, x) == \E i \in 1..Len(s) : s[i] = x

\* JavaScript truthiness of an optional string.
Truthy(s) == s # NoValue /\ s # ""

RECURSIVE JoinWith(_, _)
\* Array.prototype.join: the texts of a list joined by a separator.
JoinWith(texts, sep) ==
    IF texts = <<>> THEN <<>>
    ELSE IF Len(texts) = 1 THEN texts[1]
    ELSE texts[1] \o sep \o JoinWith(Tail(texts), sep)

\* Sequences over S of length at most n.
SeqsUpTo(S, n) == UNION {[1..k -> S] : k \in 0..n}

----------------------------------------------------------------------------
(* The contract document (types/index.ts) *)

\* Path templates, as token sequences: "/pets" and "/pets/{id}".
PetsPath == <<"/pets">>
PetByIdPath == <<"/pets/", "{", "id", "}">>
PathKeys == {PetsPath, PetByIdPath}

\* Keys a path-item mapping may hold in a contract document.
ItemKeys == {"get", "post", "head"}

OperationIds == {"listPets", "createPet", "getPet"}

\* An id no operation of any contract carries.
UnknownId == "launchRocket"

\* Parameter.schema
StringSchema == [defined |-> TRUE, type |-> "string"]
IntegerSchema == [defined |-> TRUE, type |-> "integer"]

\* A media-type entry of Response.content, here content['application/json'];
\* ref is the `$ref` string split at '/', <<>> when the schema has no `$ref`.
NoMedia == [defined |-> FALSE, hasSchema |-> FALSE, ref |-> <<>>]
JsonNoSchema == [defined |-> TRUE, hasSchema |-> FALSE, ref |-> <<>>]
JsonInline == [defined |-> TRUE, hasSchema |-> TRUE, ref |-> <<>>]
JsonRef(r) == [defined |-> TRUE, hasSchema |-> TRUE, ref |-> r]
PetRef == <<"#", "components", "schemas", "Pet">>
Refs == {PetRef, <<"Pet">>, <<"#", "components", "schemas", "">>}
MediaTypes == {NoMedia, JsonNoSchema, JsonInline} \cup {JsonRef(r) : r \in Refs}

\* A Response: absent, without content, or with a content mapping that holds
\* an application/json entry (json) and possibly another media type (other).
NoResponse == [defined |-> FALSE, hasContent |-> FALSE, json |-> NoMedia,
               other |-> FALSE]
EmptyResponse == [defined |-> TRUE, hasContent |-> FALSE, json |-> NoMedia,
                  other |-> FALSE]
ContentResponse(j, o) == [defined |-> TRUE, hasContent |-> TRUE, json |-> j,
                          other |-> o]
ResponseObjects ==
    {NoResponse, EmptyResponse}
        \cup {ContentResponse(j, o) : j \in MediaTypes, o \in BOOLEAN}

\* Operation.responses, keyed by status code; only '200' and '201' are read.
Responses(r200, r201) == [r200 |-> r200, r201 |-> r201]

\* The operations of the pets contract, by id (tags: <<>> when absent).
OperationOf(id) ==
    CASE id = "listPets" ->
           [kind |-> "object", operationId |-> id, summary |-> "List pets",
            tags |-> <<"pets">>,
            parameters |-> <<[name |-> "limit", in |-> "query", schema |-> IntegerSchema],
                             [name |-> "tag", in |-> "query", schema |-> StringSchema]>>,
            requestBody |-> FALSE,
            responses |-> Responses(ContentResponse(JsonInline, FALSE), NoResponse)]
      [] id = "createPet" ->
           [kind |-> "object", operationId |-> id, summary |-> NoValue,
            tags |-> <<"Inventory">>,
            parameters |-> <<>>,
            requestBody |-> TRUE,
            responses |-> Responses(NoResponse, ContentResponse(JsonRef(PetRef), FALSE))]
      [] id = "getPet" ->
           [kind |-> "object", operationId |-> id, summary |-> "Get a pet",
            tags |-> <<>>,
            parameters |-> <<[name |-> "id", in |-> "path", schema |-> StringSchema]>>,
            requestBody |-> FALSE,
            responses |-> Responses(ContentResponse(JsonRef(PetRef), FALSE), NoResponse)]
      [] OTHER ->
           [kind |-> "object", operationId |-> id, summary |-> NoValue,
            tags |-> <<>>,
            parameters |-> <<>>,
            requestBody |-> FALSE,
            responses |-> Responses(EmptyResponse, NoResponse)]

\* Values a path-item key may hold that are no usable operation: an object
\* without operationId (also an array such as `parameters`), a string, null.
NoIdObject == [OperationOf(NoValue) EXCEPT !.responses = Responses(NoResponse, NoResponse)]
ScalarValue == [NoIdObject EXCEPT !.kind = "string"]
NullValue == [NoIdObject EXCEPT !.kind = "null"]

EntryValues ==
    {OperationOf(id) : id \in OperationIds} \cup {NoIdObject, ScalarValue, NullValue}

\* A contract document as the list of its path-item entries in document order.
FlatEntries == [path : PathKeys, key : ItemKeys, value : EntryValues]

\* YAML mappings hold each key once, and the entries of one path are adjacent.
WellNested(flat) ==
    /\ \A i, j \in 1..Len(flat) :
          i < j /\ flat[i].path = flat[j].path =>
             /\ flat[i].key # flat[j].key
             /\ \A k \in i..j : flat[k].path = flat[i].path

RECURSIVE Nest(_)
\* The nested document of a flat entry list: paths in order, each with its item.
Nest(flat) ==
    IF flat = <<>> THEN <<>>
    ELSE LET n == Len(flat)
             rest == Nest(SubSeq(flat, 1, n - 1))
             entry == [key |-> flat[n].key, value |-> flat[n].value]
         IN IF rest # <<>> /\ rest[Len(rest)].key = flat[n].path
            THEN [rest EXCEPT ![Len(rest)].item = Append(@, entry)]
            ELSE Append(rest, [key |-> flat[n].path, item |-> <<entry>>])

\* exists: whether the contract file is on disk (fs.existsSync(specPath)).
Contract(title, flat) == [exists |-> TRUE, title |-> title, paths |-> Nest(flat)]

\* Contracts that vary in structure: which keys, in which order, hold what.
StructuralContracts ==
    {Contract("Pet Store", flat) :
        flat \in {f \in SeqsUpTo(FlatEntries, MaxEntries) : WellNested(f)}}

\* Contracts of one operation that vary in its responses.
ResponseContracts ==
    {Contract("Pet Store",
              <<[path |-> PetsPath, key |-> "get",
                 value |-> [OperationOf("listPets") EXCEPT
                               !.responses = Responses(a, b)]]>>) :
        a \in ResponseObjects, b \in ResponseObjects}

\* The operation-id filter: absent, or a list of ids.
NoFilter == [defined |-> FALSE, ids |-> <<>>]
Filter(ids) == [defined |-> TRUE, ids |-> ids]
Filters ==
    {NoFilter} \cup
    {Filter(ids) : ids \in {f \in SeqsUpTo(OperationIds \cup {UnknownId}, MaxFilter) :
                               \A i, j \in 1..Len(f) : i # j => f[i] # f[j]}}

\* The entries of a document in traversal order (paths, then keys of a path).
RECURSIVE Flatten(_)
Flatten(paths) ==
    IF paths = <<>> THEN <<>>
    ELSE LET p == Head(paths)
         IN [i \in 1..Len(p.item) |->
                [path |-> p.key, key |-> p.item[i].key, value |-> p.item[i].value]]
            \o Flatten(Tail(paths))

----------------------------------------------------------------------------
(* ConsumerGenerator: extraction *)

\* String.prototype.toUpperCase on a path-item key.
ToUpperCase(method) ==
    CASE method = "get" -> "GET"
      [] method = "post" -> "POST"
      [] method = "put" -> "PUT"
      [] method = "delete" -> "DELETE"
      [] method = "patch" -> "PATCH"
      [] method = "head" -> "HEAD"
      [] OTHER -> method

\* SchemaToType without the integer case.
SchemaToTypeKeepsInteger(schema) ==
    IF ~schema.defined THEN "any"
    ELSE IF schema.type = "array" THEN "array"
    ELSE IF Truthy(schema.type) THEN schema.type ELSE "any"

SchemaToType(schema) ==
    IF ~schema.defined THEN "any"
    ELSE IF schema.type = "integer" THEN "number"
    ELSE IF schema.type = "array" THEN "array"
    ELSE IF Truthy(schema.type) THEN schema.type ELSE "any"

InferReturnType(operation) ==
    LET successResponse == IF operation.responses.r200.defined
                           THEN operation.responses.r200
                           ELSE operation.responses.r201
    IN IF ~successResponse.defined \/ ~successResponse.hasContent THEN "void"
       ELSE LET jsonContent == successResponse.json
            IN IF ~jsonContent.defined \/ ~jsonContent.hasSchema THEN "Object"
               ELSE IF jsonContent.ref # <<>> /\ jsonContent.ref # <<"">>
                    THEN LET last == jsonContent.ref[Len(jsonContent.ref)]
                         IN IF last # "" THEN last ELSE "Object"
                    ELSE "Object"

\* The OperationContext pushed for one operation.
Descriptor(pathKey, method, operation) ==
    LET params == [i \in 1..Len(operation.parameters) |->
                      [name |-> operation.parameters[i].name,
                       type |-> SchemaToType(operation.parameters[i].schema),
                       in |-> operation.parameters[i].in]]
    IN [operationId |-> operation.operationId,
        method |-> ToUpperCase(method),
        path |-> pathKey,
        summary |-> IF Truthy(operation.summary) THEN operation.summary
                    ELSE operation.operationId,
        hasBody |-> operation.requestBody,
        hasParams |-> Len(params) > 0,
        params |-> params,
        returnType |-> InferReturnType(operation)]

\* ExtractEntry with the descriptor put in front of the result (unshift for push).
ExtractEntryPrepend(acc, pathKey, entry, filter) ==
    IF acc.threw THEN acc
    ELSE IF entry.value.kind = "null" THEN [acc EXCEPT !.threw = TRUE]
    ELSE IF entry.value.kind # "object" \/ ~Truthy(entry.value.operationId) THEN acc
    ELSE IF filter.defined /\ ~Includes(filter.ids, entry.value.operationId) THEN acc
    ELSE [acc EXCEPT !.value = <<Descriptor(pathKey, entry.key, entry.value)>> \o @]

\* The inner loop body: what one path-item entry does to the result so far.
\* acc.threw records the TypeError of reading `.operationId` of null.
ExtractEntry(acc, pathKey, entry, filter) ==
    IF acc.threw THEN acc
    ELSE IF entry.value.kind = "null" THEN [acc EXCEPT !.threw = TRUE]
    ELSE IF entry.value.kind # "object" \/ ~Truthy(entry.value.operationId) THEN acc
    ELSE IF filter.defined /\ ~Includes(filter.ids, entry.value.operationId) THEN acc
    ELSE [acc EXCEPT !.value = Append(@, Descriptor(pathKey, entry.key, entry.value))]

RECURSIVE ExtractItem(_, _, _, _)
\* for (const [method, operation] of Object.entries(pathItem))
ExtractItem(acc, pathKey, item, filter) ==
    IF item = <<>> THEN acc
    ELSE ExtractItem(ExtractEntry(acc, pathKey, Head(item), filter),
                     pathKey, Tail(item), filter)

RECURSIVE ExtractPaths(_, _, _)
\* for (const [pathKey, pathItem] of Object.entries(spec.paths || {}))
ExtractPaths(acc, paths, filter) ==
    IF paths = <<>> THEN acc
    ELSE ExtractPaths(ExtractItem(acc, Head(paths).key, Head(paths).item, filter),
                      Tail(paths), filter)

\* The local `operations` before extractOperations has returned.
NotExtracted == [defined |-> FALSE, threw |-> FALSE, value |-> <<>>]

\* extractOperations: [defined, threw, value], value the descriptors when it
\* returns.
ExtractOperations(contract, filter) ==
    LET r == ExtractPaths([defined |-> TRUE, threw |-> FALSE, value |-> <<>>],
                          contract.paths, filter)
    IN IF r.threw THEN [r EXCEPT !.value = <<>>] ELSE r

----------------------------------------------------------------------------
(* Specification of extraction: one call of extractOperations. *)

InitExtract ==
    /\ pc = "extract"
    /\ spec \in StructuralContracts \cup ResponseContracts
    /\ filterOperationIds \in Filters
    /\ operations = NotExtracted
    /\ language = Unused
    /\ op = Unused /\ args = Unused /\ path = Unused /\ query = Unused
    /\ response = Unused /\ outcome = Unused
    /\ options = Unused /\ planFile = Unused /\ plan = Unused
    /\ tasksToImplement = Unused /\ taskIdx = Unused /\ generatedCode = Unused
    /\ fileIdx = Unused /\ outputDir = Unused /\ events = Unused
    /\ exitCode = Unused /\ violations = Unused
    /\ intent = Unused /\ tasks = Unused /\ planOutput = Unused
    /\ specFile = Unused /\ requests = Unused /\ data = Unused

Extract ==
    /\ pc = "extract"
    /\ operations' = ExtractOperations(spec, filterOperationIds)
    /\ pc' = "extracted"
    /\ UNCHANGED <<spec, filterOperationIds, language>>
    /\ UNCHANGED clientVars
    /\ UNCHANGED implementVars
    /\ UNCHANGED planVars
    /\ UNCHANGED syncVars

NextExtract == Extract

SpecExtract == InitExtract /\ [][NextExtract]_vars

----------------------------------------------------------------------------
(* Claims about extraction *)

\* An entry that carries an operationId.
IsOperation(e) == e.value.kind = "object" /\ Truthy(e.value.operationId)

\* The operations of the loaded contract, in document traversal order.
DocOperations == SelectSeq(Flatten(spec.paths), IsOperation)

InFilter(e) == Includes(filterOperationIds.ids, e.value.operationId)

\* The operations the filter keeps, in document traversal order.
SelectedOperations ==
    IF filterOperationIds.defined THEN SelectSeq(DocOperations, InFilter)
    ELSE DocOperations

\* Every operation carries an id of its own, and no path-item key holds null.
WellFormedContract ==
    /\ \A e \in Range(Flatten(spec.paths)) : e.value.kind # "null"
    /\ \A i, j \in 1..Len(DocOperations) :
          i # j => DocOperations[i].value.operationId # DocOperations[j].value.operationId

\* C2: on a contract whose operations carry unique operationIds,
\* extractOperations returns, without a filter, one descriptor per operation in
\* document traversal order, and with a filter S exactly |S \cap ids|
\* descriptors, those of the operations named in S, in document traversal
\* order whatever the order of S.
C2_ExtractCountAndOrder ==
    (pc = "extracted" /\ WellFormedContract) =>
        /\ ~operations.threw
        /\ Len(operations.value) = Len(SelectedOperations)
        /\ \A i \in 1..Len(operations.value) :
              /\ operations.value[i].operationId = SelectedOperations[i].value.operationId
              /\ operations.value[i].path = SelectedOperations[i].path
              /\ operations.value[i].method = ToUpperCase(SelectedOperations[i].key)
        /\ ~filterOperationIds.defined =>
              Len(operations.value) = Len(DocOperations)
        /\ filterOperationIds.defined =>
              Len(operations.value) =
                 Cardinality(Range(filterOperationIds.ids) \cap
                             {e.value.operationId : e \in Range(DocOperations)})

\* A filter that names two operations in the reverse of their document order,
\* both extracted.
C2_Witness ==
    /\ pc = "extracted" /\ WellFormedContract
    /\ filterOperationIds.defined
    /\ Len(operations.value) = 2
    /\ filterOperationIds.ids =
          <<operations.value[2].operationId, operations.value[1].operationId>>

\* The return type the descriptor should carry for Operation.responses r.
ClaimedReturnType(r) ==
    LET success == IF r.r200.defined THEN r.r200 ELSE r.r201
        hasJsonBody == success.defined /\ success.hasContent /\ success.json.defined
        ref == success.json.ref
        named == success.json.hasSchema /\ ref # <<>> /\ ref[Len(ref)] # ""
    IN IF ~hasJsonBody THEN "void"
       ELSE IF named THEN ref[Len(ref)]
       ELSE "Object"

\* C6: every descriptor's returnType is `void` when the operation's 200/201
\* success response has no JSON body (also when its content lacks an
\* application/json entry), the trailing segment of the `$ref` when the JSON
\* schema is a named reference, and `Object` otherwise.
C6_ReturnTypeFromJsonBody ==
    (pc = "extracted" /\ ~operations.threw
        /\ Len(operations.value) = Len(SelectedOperations)) =>
        \A i \in 1..Len(operations.value) :
            operations.value[i].returnType =
                ClaimedReturnType(SelectedOperations[i].value.responses)

\* The list in reverse order.
Reverse(s) == [i \in 1..Len(s) |-> s[Len(s) + 1 - i]]

\* The contract with the keys of every path-item written in reverse order.
ReversedVerbs(contract) ==
    [contract EXCEPT !.paths =
        [i \in 1..Len(contract.paths) |->
            [contract.paths[i] EXCEPT !.item = Reverse(contract.paths[i].item)]]]

\* C23: extraction visits the path-items in document order and the verbs of
\* a path-item in one fixed order that does not depend on the order they are
\* written in (the same document with the verbs of each path-item written in
\* another order gives the same descriptors in the same order), and an entry
\* without operationId is skipped without an error being raised.
C23_CanonicalVerbOrder ==
    pc = "extracted" =>
        /\ ~operations.threw
        /\ operations.value =
              ExtractOperations(ReversedVerbs(spec), filterOperationIds).value

\* The verbs a path-item maps to operations.
VerbSubset == {"GET", "POST", "PUT", "DELETE", "PATCH"}

\* C24: every extracted descriptor's method is one of GET, POST, PUT, DELETE,
\* PATCH; a path-item key outside that subset never yields a descriptor.
C24_MethodInVerbSubset ==
    pc = "extracted" =>
        \A i \in 1..Len(operations.value) : operations.value[i].method \in VerbSubset

----------------------------------------------------------------------------
(* The client methods ConsumerGenerator renders, as they run *)

SupportedLanguages == {"java", "typescript", "python"}

\* A text value or null: an argument, a response body, a returned value.
Text(t) == [null |-> FALSE, text |-> t]
Null == [null |-> TRUE, text |-> <<>>]
ArgValues == {Null, Text(<<"7">>), Text(<<"x">>)}

\* Descriptors the emitter may be handed.
ClientOperations ==
    {Descriptor(p, k, OperationOf(id)) : p \in PathKeys, k \in ItemKeys, id \in OperationIds}

\* Response status codes and bodies the server may answer with.
StatusCodes == 100..599
ResponseBodies == {<<>>, <<"{\"name\":\"rex\"}">>}

NoOutcome == [kind |-> "none", value |-> Null, exception |-> "", message |-> <<>>]
Return(v) == [kind |-> "return", value |-> v, exception |-> "", message |-> <<>>]
Throw(e, m) == [kind |-> "throw", value |-> Null, exception |-> e, message |-> m]

RECURSIVE ReplaceAll(_, _, _)
\* Java String.replace(target, replacement): every occurrence, left to right.
ReplaceAll(s, target, replacement) ==
    IF Len(s) < Len(target) THEN s
    ELSE IF SubSeq(s, 1, Len(target)) = target
         THEN replacement \o ReplaceAll(SubSeq(s, Len(target) + 1, Len(s)), target, replacement)
         ELSE <<Head(s)>> \o ReplaceAll(Tail(s), target, replacement)

\* Indices (into o.params) of the parameters in location loc, in order.
RECURSIVE ParamsIn(_, _, _)
ParamsIn(o, loc, i) ==
    IF i > Len(o.params) THEN <<>>
    ELSE (IF o.params[i].in = loc THEN <<i>> ELSE <<>>) \o ParamsIn(o, loc, i + 1)

RECURSIVE PathCode(_, _, _)
\* String path = "<op.path>".replace("{p}", p)... over the path parameters.
PathCode(p, o, a) ==
    LET pathParams == ParamsIn(o, "path", 1)
    IN IF pathParams = <<>> THEN p
       ELSE LET i == pathParams[Len(pathParams)]
                before == PathCode(p, [o EXCEPT !.params = SubSeq(@, 1, i - 1)], a)
            IN ReplaceAll(before, <<"{", o.params[i].name, "}">>, a[i].text)

RECURSIVE QueryCode(_, _, _, _)
\* The rendered appends: the i-th query parameter (i from 0), when its argument
\* is not null, appends "" for i = 0 and "&" otherwise, then name=value.
QueryCode(q, o, a, k) ==
    LET queryParams == ParamsIn(o, "query", 1)
    IN IF k > Len(queryParams) THEN q
       ELSE LET i == queryParams[k]
            IN QueryCode(IF a[i].null THEN q
                         ELSE q \o (IF k - 1 = 0 THEN <<>> ELSE <<"&">>)
                                \o <<o.params[i].name, "=">> \o a[i].text,
                         o, a, k + 1)

\* The verbs of sendRequest's switch.
SendRequestMethods == {"GET", "POST", "PUT", "DELETE", "PATCH"}

\* sendRequest with every status below 400 taken as success.
SendRequestStatusBelow400(statusCode, responseBody) ==
    IF statusCode >= 200 /\ statusCode < 400 THEN Return(Text(responseBody))
    ELSE Throw("RuntimeException", <<"HTTP ", ToString(statusCode), ": ">> \o responseBody)

\* sendRequest's handling of the response status.
SendRequestStatus(statusCode, responseBody) ==
    IF statusCode >= 200 /\ statusCode < 300 THEN Return(Text(responseBody))
    ELSE IF statusCode = 204 THEN Return(Null)
    ELSE Throw("RuntimeException", <<"HTTP ", ToString(statusCode), ": ">> \o responseBody)

\* toSnakeCase on the identifiers of the pets contract.
ToSnakeCase(str) ==
    CASE str = "listPets" -> "list_pets"
      [] str = "createPet" -> "create_pet"
      [] str = "getPet" -> "get_pet"
      [] OTHER -> str

InitClient ==
    /\ pc = "call"
    /\ language \in SupportedLanguages
    /\ op \in ClientOperations
    /\ args \in [1..Len(op.params) -> ArgValues]
    /\ path = <<>>
    /\ query = <<>>
    /\ response = [statusCode |-> 0, body |-> <<>>]
    /\ outcome = NoOutcome
    /\ spec = Unused /\ filterOperationIds = Unused /\ operations = Unused
    /\ options = Unused /\ planFile = Unused /\ plan = Unused
    /\ tasksToImplement = Unused /\ taskIdx = Unused /\ generatedCode = Unused
    /\ fileIdx = Unused /\ outputDir = Unused /\ events = Unused
    /\ exitCode = Unused /\ violations = Unused
    /\ intent = Unused /\ tasks = Unused /\ planOutput = Unused
    /\ specFile = Unused /\ requests = Unused /\ data = Unused

ClientFrame == UNCHANGED <<language, op, args>> /\ UNCHANGED extractVars
               /\ UNCHANGED implementVars /\ UNCHANGED planVars
               /\ UNCHANGED syncVars

\* Java: the path statement. String.replace throws on a null replacement.
JavaBuildPath ==
    /\ pc = "call" /\ language = "java"
    /\ IF \E i \in Range(ParamsIn(op, "path", 1)) : args[i].null
       THEN /\ outcome' = Throw("NullPointerException", <<>>)
            /\ pc' = "done"
            /\ UNCHANGED path
       ELSE /\ path' = PathCode(op.path, op, args)
            /\ pc' = "query"
            /\ UNCHANGED outcome
    /\ UNCHANGED <<query, response>>
    /\ ClientFrame

\* Java: the query block, rendered only for operations with query parameters.
JavaBuildQuery ==
    /\ pc = "query"
    /\ IF ParamsIn(op, "query", 1) # <<>>
       THEN LET q == QueryCode(<<>>, op, args, 1)
            IN /\ query' = q
               /\ path' = IF Len(q) > 0 THEN path \o <<"?">> \o q ELSE path
       ELSE UNCHANGED <<query, path>>
    /\ pc' = "send"
    /\ UNCHANGED <<response, outcome>>
    /\ ClientFrame

\* Java sendRequest: the verb switch, then httpClient.send.
JavaSend ==
    /\ pc = "send"
    /\ IF op.method \notin SendRequestMethods
       THEN /\ outcome' = Throw("IllegalArgumentException",
                                <<"Unsupported HTTP method: ", op.method>>)
            /\ pc' = "done"
            /\ UNCHANGED response
       ELSE \/ /\ \E sc \in StatusCodes, b \in ResponseBodies :
                     response' = [statusCode |-> sc, body |-> b]
               /\ pc' = "status"
               /\ UNCHANGED outcome
            \/ /\ outcome' = Throw("IOException", <<>>)
               /\ pc' = "done"
               /\ UNCHANGED response
    /\ UNCHANGED <<path, query>>
    /\ ClientFrame

\* Java sendRequest: success, no-content or error by status code.
JavaHandleStatus ==
    /\ pc = "status"
    /\ outcome' = SendRequestStatus(response.statusCode, response.body)
    /\ pc' = "return"
    /\ UNCHANGED <<path, query, response>>
    /\ ClientFrame

\* Java: the method's return statement; a void method drops the value.
JavaReturn ==
    /\ pc = "return"
    /\ outcome' = IF outcome.kind = "return" /\ op.returnType = "void"
                  THEN [outcome EXCEPT !.kind = "void", !.value = Null]
                  ELSE outcome
    /\ pc' = "done"
    /\ UNCHANGED <<path, query, response>>
    /\ ClientFrame

\* TypeScript and Python: the method returns the call of the SDK method of
\* the same (Python: snake-case) name with its arguments in declaration order;
\* outcome.message holds the call, no request path is built.
Delegate ==
    /\ pc = "call" /\ language \in {"typescript", "python"}
    /\ outcome' = [kind |-> "delegate", value |-> Null, exception |-> "",
                   message |->
                      <<IF language = "python" THEN ToSnakeCase(op.operationId)
                        ELSE op.operationId, "(">>
                      \o JoinWith([i \in 1..Len(args) |->
                                      IF args[i].null THEN <<"null">> ELSE args[i].text],
                                  <<", ">>)
                      \o <<")">>]
    /\ pc' = "done"
    /\ UNCHANGED <<path, query, response>>
    /\ ClientFrame

NextClient ==
    \/ JavaBuildPath
    \/ JavaBuildQuery
    \/ JavaSend
    \/ JavaHandleStatus
    \/ JavaReturn
    \/ Delegate

SpecClient == InitClient /\ [][NextClient]_vars

----------------------------------------------------------------------------
(* Claims about the rendered client methods *)

\* The name=value pairs of the query parameters called with a value, in
\* declaration order.
SuppliedPairs ==
    LET queryParams == ParamsIn(op, "query", 1)
        Supplied(i) == ~args[i].null
        supplied == SelectSeq(queryParams, Supplied)
    IN [k \in 1..Len(supplied) |-> <<op.params[supplied[k]].name, "=">> \o args[supplied[k]].text]

\* C1: the request path the rendered method sends ends with `?` followed by
\* the supplied name=value pairs in declaration order joined by `&` (never a
\* leading `&`); with only the second of two query parameters supplied it ends
\* with exactly `?b=<value>`.
C1_QueryStringJoined ==
    (language = "java" /\ pc = "send") =>
        path = PathCode(op.path, op, args)
               \o (IF SuppliedPairs = <<>> THEN <<>>
                   ELSE <<"?">> \o JoinWith(SuppliedPairs, <<"&">>))

\* C3: the rendered request routine answers a 204 response by returning null,
\* not the response body text.
C3_NoContentReturnsNull ==
    (pc = "return" /\ response.statusCode = 204) => outcome = Return(Null)

\* s ends with t.
EndsWith(s, t) ==
    Len(t) <= Len(s) /\ SubSeq(s, Len(s) - Len(t) + 1, Len(s)) = t

\* C4: the rendered request routine returns normally for every status in
\* 200..299 and, for every other status, raises a runtime error whose message
\* holds the status code and the response body.
C4_StatusSuccessOrError ==
    pc = "return" =>
        IF response.statusCode >= 200 /\ response.statusCode <= 299
        THEN outcome.kind = "return"
        ELSE /\ outcome.kind = "throw"
             /\ outcome.exception = "RuntimeException"
             /\ Includes(outcome.message, ToString(response.statusCode))
             /\ EndsWith(outcome.message, response.body)

\* A redirect answered with a body, raised as an error.
C4_Witness ==
    /\ pc = "return"
    /\ response.statusCode = 304
    /\ response.body # <<>>
    /\ outcome.kind = "throw"

\* C5: in every target language the method rendered for `/pets/{id}` with path
\* parameter `id`, called with a value for `id`, builds the request path
\* `/pets/<value>`.
C5_PathSubstitutionEveryLanguage ==
    (/\ pc = "done"
     /\ op.path = PetByIdPath
     /\ Len(op.params) = 1 /\ op.params[1].name = "id" /\ op.params[1].in = "path"
     /\ ~args[1].null) =>
        path = <<"/pets/">> \o args[1].text

----------------------------------------------------------------------------
(* Guardrails (core/guardrails.ts) *)

(* A line of a file is a sequence of tokens: a run of word characters, one    *)
(* white-space or punctuation character, a URL scheme ("https://") or the     *)
(* rest of a URL.  A regular expression is a sequence of pieces, each a set   *)
(* of tokens that is matched once or any number of times.                     *)

Whitespace == {" ", "\t"}
Quotes == {"\"", "'"}

\* Tokens whose last character is no word character (for \b).
NonWordEnd ==
    Whitespace \cup Quotes
        \cup {"(", ")", ".", "/", "*", "#", ":", "=", ";", ",", "{", "}", "<", ">",
              "http://", "https://"}

\* Pieces of a regular expression.
One(S) == [tokens |-> S, negated |-> FALSE, star |-> FALSE]
Star(S) == [tokens |-> S, negated |-> FALSE, star |-> TRUE]
NoneOf(S) == [tokens |-> S, negated |-> TRUE, star |-> FALSE]
NoneOfStar(S) == [tokens |-> S, negated |-> TRUE, star |-> TRUE]

\* A regular expression: boundary is a leading \b.
RegExp(boundary, pieces) == [boundary |-> boundary, pieces |-> pieces]

RECURSIVE MatchAt(_, _, _, _)
\* The pieces from the k-th on match the line from its i-th token on.
MatchAt(line, i, pieces, k) ==
    IF k > Len(pieces) THEN TRUE
    ELSE LET piece == pieces[k]
             here == i <= Len(line) /\ ((line[i] \in piece.tokens) # piece.negated)
         IN IF piece.star
            THEN MatchAt(line, i, pieces, k + 1)
                    \/ (here /\ MatchAt(line, i + 1, pieces, k))
            ELSE here /\ MatchAt(line, i + 1, pieces, k + 1)

\* RegExp.prototype.test (no g flag): the expression matches somewhere.
Test(regexp, line) ==
    \E i \in 1..Len(line) :
        /\ regexp.boundary => (i = 1 \/ line[i - 1] \in NonWordEnd)
        /\ MatchAt(line, i, regexp.pieces, 1)

\* One guardrail rule; languages is {} for a rule without a language list.
Rule(name, pattern, restricted, languages, skipPatterns) ==
    [name |-> name, pattern |-> pattern, restricted |-> restricted,
     languages |-> languages, skipPatterns |-> skipPatterns]

\* Guardrails.rules, in order.
Rules ==
    <<Rule("no-fetch",
           RegExp(TRUE, <<One({"fetch"}), Star(Whitespace), One({"("})>>),
           TRUE, {"typescript", "javascript"}, <<>>),
      Rule("no-axios",
           RegExp(TRUE, <<One({"axios"}), Star(Whitespace), One({".", "("})>>),
           TRUE, {"typescript", "javascript"}, <<>>),
      Rule("no-http-client",
           RegExp(FALSE, <<One({"new", "renew"}), One(Whitespace), Star(Whitespace),
                           One({"HttpClient"}), Star(Whitespace), One({"("})>>),
           TRUE, {"java"}, <<>>),
      Rule("no-okhttp-direct",
           RegExp(FALSE, <<One({"new", "renew"}), One(Whitespace), Star(Whitespace),
                           One({"OkHttpClient"}), Star(Whitespace), One({"("})>>),
           TRUE, {"java"}, <<>>),
      Rule("no-requests",
           RegExp(FALSE, <<One({"requests"}), One({"."}),
                           One({"get", "post", "put", "delete", "patch"}),
                           Star(Whitespace), One({"("})>>),
           TRUE, {"python"}, <<>>),
      Rule("no-urllib",
           RegExp(FALSE, <<One({"urllib"}), One({"."}), One({"request", "urlopen"})>>),
           TRUE, {"python"}, <<>>),
      Rule("no-raw-url",
           RegExp(FALSE, <<One(Quotes), One({"http://", "https://"}), NoneOf(Quotes),
                           NoneOfStar(Quotes), One(Quotes)>>),
           FALSE, {},
           <<RegExp(FALSE, <<One({"xmlns", "XMLNS"})>>),
             RegExp(FALSE, <<One({"xsi", "XSI"}), One({":"})>>),
             RegExp(FALSE, <<One({"schema", "Schema", "schemaLocation"})>>),
             RegExp(FALSE, <<One({"setBasePath"})>>),
             RegExp(FALSE, <<One({"basePath"})>>),
             RegExp(FALSE, <<One({"Configuration"}), Star(Whitespace), One({"("})>>)>>)>>

\* The extension a file path ends with.
Extension(filePath) ==
    CASE filePath \in {"src/main/java/Application.java", "src/main/java/ApiService.java",
                       "Client.java"} -> ".java"
      [] filePath \in {"src/index.ts", "src/api-service.ts", "client.ts"} -> ".ts"
      [] filePath \in {"view.tsx"} -> ".tsx"
      [] filePath \in {"client.js"} -> ".js"
      [] filePath \in {"main.py", "api_service.py", "client.py"} -> ".py"
      [] filePath \in {"pom.xml", "layout.xml"} -> ".xml"
      [] filePath \in {"parent.pom"} -> ".pom"
      [] filePath \in {"package.json"} -> ".json"
      [] OTHER -> ".txt"

\* inferLanguage
InferLanguage(filePath) ==
    IF Extension(filePath) = ".java" THEN "java"
    ELSE IF Extension(filePath) \in {".ts", ".tsx"} THEN "typescript"
    ELSE IF Extension(filePath) \in {".js", ".jsx"} THEN "javascript"
    ELSE IF Extension(filePath) = ".py" THEN "python"
    ELSE "unknown"

RECURSIVE TrimStart(_)
TrimStart(line) ==
    IF line # <<>> /\ Head(line) \in Whitespace THEN TrimStart(Tail(line)) ELSE line

RECURSIVE TrimEnd(_)
TrimEnd(line) ==
    IF line # <<>> /\ line[Len(line)] \in Whitespace
    THEN TrimEnd(SubSeq(line, 1, Len(line) - 1)) ELSE line

\* String.prototype.trim
Trim(line) == TrimEnd(TrimStart(line))

\* String.prototype.startsWith
StartsWith(line, prefix) ==
    Len(prefix) <= Len(line) /\ SubSeq(line, 1, Len(prefix)) = prefix

\* isComment
IsComment(line, lang) ==
    LET trimmed == Trim(line)
    IN IF lang \in {"java", "typescript", "javascript"}
       THEN \/ StartsWith(trimmed, <<"/", "/">>)
            \/ StartsWith(trimmed, <<"*">>)
            \/ StartsWith(trimmed, <<"/", "*">>)
       ELSE IF lang = "python"
       THEN \/ StartsWith(trimmed, <<"#">>)
            \/ StartsWith(trimmed, <<"\"", "\"", "\"">>)
            \/ StartsWith(trimmed, <<"'", "'", "'">>)
       ELSE FALSE

\* One entry of the violations list: `[rule] filePath:line: message`.
Violation(rule, filePath, line) == [rule |-> rule, file |-> filePath, line |-> line]

\* rule.skipPatterns?.some(skip => skip.test(line)) ?? false
ShouldSkip(rule, line) ==
    \E k \in 1..Len(rule.skipPatterns) : Test(rule.skipPatterns[k], line)

\* ScanRule reporting the loop index i as the line number.
ScanRuleZeroBased(rule, lines, lang, filePath) ==
    LET Hit(i) == /\ ~IsComment(lines[i + 1], lang)
                  /\ Test(rule.pattern, lines[i + 1])
                  /\ ~ShouldSkip(rule, lines[i + 1])
        hits == SelectSeq([n \in 1..Len(lines) |-> n - 1], Hit)
    IN [k \in 1..Len(hits) |-> Violation(rule.name, filePath, hits[k])]

\* The loop over the lines for one rule: i runs from 0, the line reported is
\* i + 1.
ScanRule(rule, lines, lang, filePath) ==
    LET Hit(i) == /\ ~IsComment(lines[i + 1], lang)
                  /\ Test(rule.pattern, lines[i + 1])
                  /\ ~ShouldSkip(rule, lines[i + 1])
        hits == SelectSeq([n \in 1..Len(lines) |-> n - 1], Hit)
    IN [k \in 1..Len(hits) |-> Violation(rule.name, filePath, hits[k] + 1)]

\* Whether a rule is taken up for a file of language lang.
RuleAppliesAlways(rule, lang) == TRUE
RuleApplies(rule, lang) == ~(rule.restricted /\ lang \notin rule.languages)

RECURSIVE ScanRules(_, _, _, _)
\* for (const rule of this.rules), from the r-th rule on
ScanRules(r, lines, lang, filePath) ==
    IF r > Len(Rules) THEN <<>>
    ELSE (IF RuleApplies(Rules[r], lang)
          THEN ScanRule(Rules[r], lines, lang, filePath) ELSE <<>>)
         \o ScanRules(r + 1, lines, lang, filePath)

\* validateFile; content.split('\n') is content.lines.
ValidateFile(content, lang, filePath) == ScanRules(1, content.lines, lang, filePath)

RECURSIVE ValidateFiles(_)
\* validate: every file of the map but .xml and .pom files.
ValidateFiles(files) ==
    IF files = <<>> THEN <<>>
    ELSE LET f == Head(files)
         IN (IF Extension(f.file) \in {".xml", ".pom"} THEN <<>>
             ELSE ValidateFile(f.content, InferLanguage(f.file), f.file))
            \o ValidateFiles(Tail(files))

----------------------------------------------------------------------------
(* The `implement` command and ConsumerGenerator.generateForOperations *)

\* The pets contract: listPets, createPet on /pets, getPet on /pets/{id}.
PetsContract ==
    Contract("Pet Store",
             <<[path |-> PetsPath, key |-> "get", value |-> OperationOf("listPets")],
               [path |-> PetsPath, key |-> "post", value |-> OperationOf("createPet")],
               [path |-> PetByIdPath, key |-> "get", value |-> OperationOf("getPet")]>>)

\* A contract without paths, one whose only path-item entry has no
\* operationId, and no contract file at config.openapi.
EmptyContract == Contract("Pet Store", <<>>)
UnusableContract ==
    Contract("Pet Store", <<[path |-> PetsPath, key |-> "get", value |-> NoIdObject]>>)
MissingContract == [exists |-> FALSE, title |-> "", paths |-> <<>>]
ImplementContracts == {PetsContract, EmptyContract, UnusableContract, MissingContract}

\* config.consumer.language is any string of the configuration file.
ConfigLanguages == SupportedLanguages \cup {"go"}

TaskStatuses == {"pending", "in-progress", "completed"}

\* Task.operations of the tasks of a plan file.
TaskOperations == {<<"createPet", "listPets">>, <<"getPet">>, <<>>, <<UnknownId>>}

\* The id of the i-th task of a plan file.
TaskId(i) == "task-" \o ToString(i)

\* Plan files: tasks with ids of their own.
Plans ==
    UNION {{[i \in 1..n |-> [id |-> TaskId(i), status |-> st[i], operations |-> ops[i]]] :
               st \in [1..n -> TaskStatuses], ops \in [1..n -> TaskOperations]} :
           n \in 0..MaxTasks}

\* The options of `implement`: --task <id>, --all, --dry-run.
ImplementOptions ==
    {[task |-> t, all |-> a, dryRun |-> d] :
        t \in {NoValue}, a \in BOOLEAN, d \in BOOLEAN}
    \cup {[task |-> t, all |-> FALSE, dryRun |-> d] :
        t \in {TaskId(1), TaskId(0)}, d \in BOOLEAN}

\* The lines of each rendered text that hold a quoted string or an HTTP
\* client name, after the text's first line, in the order of the text.
TemplateLines(template) ==
    CASE template = "generateJavaApplication" ->
           <<<<"/", "*", "*">>,
             <<" ", "String", " ", "baseUrl", " ", "=", " ", "args", " ", ":", " ",
               "\"", "http://", "localhost:3000/api/v1", "\"", ";">>>>
      [] template = "generateJavaService" ->
           <<<<"/", "*", "*">>,
             <<"import", " ", "java.net.http", ".", "HttpClient", ";">>,
             <<" ", "this", ".", "httpClient", " ", "=", " ", "HttpClient", ".",
               "newBuilder", "(", ")">>>>
      [] template = "generateJavaPom" ->
           <<<<"<", "project", " ", "xmlns", "=", "\"", "http://",
               "maven.apache.org/POM/4.0.0", "\"">>>>
      [] template = "generateTypeScriptIndex" ->
           <<<<"/", "*", "*">>,
             <<" ", "const", " ", "apiService", " ", "=", " ", "new", " ", "ApiService",
               "(", "'", "http://", "localhost:8080/api/v1", "'", ")", ";">>>>
      [] template = "generateTypeScriptService" ->
           <<<<"/", "*", "*">>,
             <<" ", "const", " ", "config", " ", "=", " ", "new", " ", "Configuration",
               "(", "{", " ", "basePath", " ", "}", ")", ";">>>>
      [] template = "generateTypeScriptPackage" ->
           <<<<"{">>,
             <<" ", "\"", "@sdk/client", "\"", ":", " ", "\"", "file:../sdk", "\"">>>>
      [] template = "generatePythonMain" ->
           <<<<"\"", "\"", "\"">>,
             <<" ", "api_service", " ", "=", " ", "ApiService", "(", "\"", "http://",
               "localhost:8080/api/v1", "\"", ")">>>>
      [] template = "generatePythonService" ->
           <<<<"\"", "\"", "\"">>,
             <<" ", "client", " ", "=", " ", "ApiClient", "(", ")">>>>
      [] template = "requests>=2.28.0" ->
           <<<<"requests", ">", "=", "2.28.0">>>>
      [] OTHER -> <<>>

\* A generated file's text, identified by the method that renders it and the
\* operations rendered into it; lines: see TemplateLines.
Content(template, ops) ==
    [template |-> template, operations |-> [i \in 1..Len(ops) |-> ops[i].operationId],
     lines |-> TemplateLines(template)]
NoContent == [template |-> "", operations |-> <<>>, lines |-> <<>>]

File(name, content) == [file |-> name, content |-> content]

\* path.dirname of a generated file's relative path.
Dirname(name) ==
    CASE name \in {"src/main/java/Application.java", "src/main/java/ApiService.java"} ->
           "src/main/java"
      [] name \in {"src/index.ts", "src/api-service.ts"} -> "src"
      [] OTHER -> "."

FileNames ==
    {"src/main/java/Application.java", "src/main/java/ApiService.java", "pom.xml",
     "src/index.ts", "src/api-service.ts", "package.json",
     "main.py", "api_service.py", "requirements.txt"}

\* The local `generatedCode` / `generatedFiles` before it is assigned.
NoFiles == [defined |-> FALSE, files |-> <<>>]

\* GenerateForLanguage with the number of the call rendered into each file.
GenerateForLanguageStamped(lang, ops) ==
    [defined |-> TRUE,
     files |->
        CASE lang = "java" ->
               <<File("src/main/java/Application.java",
                      Content("generateJavaApplication", ops \o <<[operationId |-> taskIdx]>>)),
                 File("src/main/java/ApiService.java", Content("generateJavaService", ops)),
                 File("pom.xml", Content("generateJavaPom", <<>>))>>
          [] lang = "typescript" ->
               <<File("src/index.ts",
                      Content("generateTypeScriptIndex", ops \o <<[operationId |-> taskIdx]>>)),
                 File("src/api-service.ts", Content("generateTypeScriptService", ops)),
                 File("package.json", Content("generateTypeScriptPackage", <<>>))>>
          [] lang = "python" ->
               <<File("main.py",
                      Content("generatePythonMain", ops \o <<[operationId |-> taskIdx]>>)),
                 File("api_service.py", Content("generatePythonService", ops)),
                 File("requirements.txt", Content("requests>=2.28.0", <<>>))>>
          [] OTHER -> <<>>]

\* generateForLanguage: the file map, in insertion order; the switch has no
\* default case, so any other language gives the empty map.
GenerateForLanguage(lang, ops) ==
    [defined |-> TRUE,
     files |->
        CASE lang = "java" ->
               <<File("src/main/java/Application.java", Content("generateJavaApplication", ops)),
                 File("src/main/java/ApiService.java", Content("generateJavaService", ops)),
                 File("pom.xml", Content("generateJavaPom", <<>>))>>
          [] lang = "typescript" ->
               <<File("src/index.ts", Content("generateTypeScriptIndex", ops)),
                 File("src/api-service.ts", Content("generateTypeScriptService", ops)),
                 File("package.json", Content("generateTypeScriptPackage", <<>>))>>
          [] lang = "python" ->
               <<File("main.py", Content("generatePythonMain", ops)),
                 File("api_service.py", Content("generatePythonService", ops)),
                 File("requirements.txt", Content("requests>=2.28.0", <<>>))>>
          [] OTHER -> <<>>]

\* The consumer output directory: whether it exists, its sub-directories, and
\* the content of each file in it (NoContent: no such file).
NoDirectory == [exists |-> FALSE, dirs |-> {}, files |-> [f \in FileNames |-> NoContent]]

\* mkdirSync(dir, recursive) when missing, then writeFileSync(fullPath, content).
WriteFile(dir, f) ==
    [exists |-> TRUE,
     dirs |-> dir.dirs \cup {Dirname(f.file)},
     files |-> [dir.files EXCEPT ![f.file] = f.content]]

Event(kind, task, file) == [kind |-> kind, task |-> task, file |-> file]

Init ==
    /\ pc = "select"
    /\ spec \in ImplementContracts
    /\ language \in ConfigLanguages
    /\ options \in ImplementOptions
    /\ planFile \in Plans
    /\ plan = <<>>
    /\ tasksToImplement = <<>>
    /\ taskIdx = 1
    /\ filterOperationIds = NoFilter
    /\ operations = NotExtracted
    /\ generatedCode = NoFiles
    /\ fileIdx = 1
    /\ outputDir = NoDirectory
    /\ events = <<>>
    /\ exitCode = "running"
    /\ outcome = NoOutcome
    /\ violations = <<>>
    /\ op = Unused /\ args = Unused /\ path = Unused /\ query = Unused
    /\ response = Unused
    /\ intent = Unused /\ tasks = Unused /\ planOutput = Unused
    /\ specFile = Unused /\ requests = Unused /\ data = Unused

\* What no step of the command changes.
ImplementFrame ==
    /\ UNCHANGED <<spec, language, options, op, args, path, query, response>>
    /\ UNCHANGED planVars
    /\ UNCHANGED syncVars

\* The task being implemented (an index into plan).
CurrentTask == tasksToImplement[taskIdx]

\* PendingFrom taking every task that is not completed.
RECURSIVE PendingFromUnfinished(_, _)
PendingFromUnfinished(p, i) ==
    IF i > Len(p) THEN <<>>
    ELSE (IF p[i].status # "completed" THEN <<i>> ELSE <<>>)
         \o PendingFromUnfinished(p, i + 1)

\* Indices of the tasks of p whose status is pending, in plan order.
RECURSIVE PendingFrom(_, _)
PendingFrom(p, i) ==
    IF i > Len(p) THEN <<>>
    ELSE (IF p[i].status = "pending" THEN <<i>> ELSE <<>>) \o PendingFrom(p, i + 1)

\* Array.prototype.find by task id: the first index, 0 when there is none.
FindTask(p, id) ==
    IF \E i \in 1..Len(p) : p[i].id = id
    THEN CHOOSE i \in 1..Len(p) : p[i].id = id /\ \A j \in 1..(i - 1) : p[j].id # id
    ELSE 0

\* Load the plan and determine which tasks to implement.
SelectTasks ==
    /\ pc = "select"
    /\ plan' = planFile
    /\ LET selected ==
              IF options.task # NoValue
              THEN (IF FindTask(planFile, options.task) = 0 THEN <<>>
                    ELSE <<FindTask(planFile, options.task)>>)
              ELSE IF options.all THEN PendingFrom(planFile, 1)
              ELSE IF PendingFrom(planFile, 1) = <<>> THEN <<>>
              ELSE <<Head(PendingFrom(planFile, 1))>>
       IN /\ tasksToImplement' = selected
          /\ IF options.task # NoValue /\ selected = <<>>
             THEN pc' = "exited" /\ exitCode' = "1"
             ELSE IF selected = <<>>
             THEN pc' = "exited" /\ exitCode' = "0"
             ELSE pc' = "start" /\ UNCHANGED exitCode
    /\ UNCHANGED <<planFile, taskIdx, filterOperationIds, operations, generatedCode,
                   fileIdx, outputDir, events, outcome>>
    /\ UNCHANGED violations
    /\ ImplementFrame

\* StartTask marking the task completed at the loop head.
StartTaskCompletes ==
    /\ pc = "start"
    /\ plan' = [plan EXCEPT ![CurrentTask].status = "completed"]
    /\ filterOperationIds' = Filter(plan[CurrentTask].operations)
    /\ operations' = NotExtracted
    /\ generatedCode' = NoFiles
    /\ fileIdx' = 1
    /\ pc' = "gen_load"
    /\ UNCHANGED <<planFile, tasksToImplement, taskIdx, outputDir, events, exitCode,
                   outcome>>
    /\ UNCHANGED violations
    /\ ImplementFrame

\* Loop head: the task goes in-progress (in memory) and generateForOperations
\* is called with the task's operations as filter.
StartTask ==
    /\ pc = "start"
    /\ plan' = [plan EXCEPT ![CurrentTask].status = "in-progress"]
    /\ filterOperationIds' = Filter(plan[CurrentTask].operations)
    /\ operations' = NotExtracted
    /\ generatedCode' = NoFiles
    /\ fileIdx' = 1
    /\ pc' = "gen_load"
    /\ UNCHANGED <<planFile, tasksToImplement, taskIdx, outputDir, events, exitCode,
                   outcome>>
    /\ UNCHANGED violations
    /\ ImplementFrame

\* generateForOperations: load the contract.
GenLoad ==
    /\ pc = "gen_load"
    /\ IF spec.exists
       THEN pc' = "gen_extract" /\ UNCHANGED outcome
       ELSE /\ pc' = "catch"
            /\ outcome' = Throw("Error", <<"OpenAPI spec not found">>)
    /\ UNCHANGED <<planFile, plan, tasksToImplement, taskIdx, filterOperationIds,
                   operations, generatedCode, fileIdx, outputDir, events, exitCode>>
    /\ UNCHANGED violations
    /\ ImplementFrame

\* GenExtract without the check for an empty operation list.
GenExtractNoCheck ==
    /\ pc = "gen_extract"
    /\ LET r == ExtractOperations(spec, filterOperationIds)
       IN /\ operations' = r
          /\ IF r.threw
             THEN pc' = "catch" /\ outcome' = Throw("TypeError", <<>>)
             ELSE pc' = "gen_emit" /\ UNCHANGED outcome
    /\ UNCHANGED <<planFile, plan, tasksToImplement, taskIdx, filterOperationIds,
                   generatedCode, fileIdx, outputDir, events, exitCode>>
    /\ UNCHANGED violations
    /\ ImplementFrame

\* generateForOperations: extract the operations; none is an error.
GenExtract ==
    /\ pc = "gen_extract"
    /\ LET r == ExtractOperations(spec, filterOperationIds)
       IN /\ operations' = r
          /\ IF r.threw
             THEN pc' = "catch" /\ outcome' = Throw("TypeError", <<>>)
             ELSE IF Len(r.value) = 0
             THEN /\ pc' = "catch"
                  /\ outcome' = Throw("Error", <<"No operations found in the spec">>)
             ELSE pc' = "gen_emit" /\ UNCHANGED outcome
    /\ UNCHANGED <<planFile, plan, tasksToImplement, taskIdx, filterOperationIds,
                   generatedCode, fileIdx, outputDir, events, exitCode>>
    /\ UNCHANGED violations
    /\ ImplementFrame

\* generateForOperations: render the files for the target language.
GenEmit ==
    /\ pc = "gen_emit"
    /\ generatedCode' = GenerateForLanguage(language, operations.value)
    /\ events' = Append(events, Event("emit", CurrentTask, generatedCode'.files))
    /\ pc' = "gen_mkdir"
    /\ UNCHANGED <<planFile, plan, tasksToImplement, taskIdx, filterOperationIds,
                   operations, fileIdx, outputDir, exitCode, outcome>>
    /\ UNCHANGED violations
    /\ ImplementFrame

\* generateForOperations: options.outputDir is set by `implement`, so the
\* directory is created when missing; mkdirSync may throw.
GenMkdir ==
    /\ pc = "gen_mkdir"
    /\ \/ /\ outputDir' = [outputDir EXCEPT !.exists = TRUE]
          /\ events' = IF outputDir.exists THEN events
                       ELSE Append(events, Event("mkdir", CurrentTask, "."))
          /\ pc' = "gen_write"
          /\ UNCHANGED outcome
       \/ /\ ~outputDir.exists
          /\ pc' = "catch"
          /\ outcome' = Throw("Error", <<"mkdir failed">>)
          /\ UNCHANGED <<outputDir, events>>
    /\ UNCHANGED <<planFile, plan, tasksToImplement, taskIdx, filterOperationIds,
                   operations, generatedCode, fileIdx, exitCode>>
    /\ UNCHANGED violations
    /\ ImplementFrame

\* generateForOperations: write the next generated file, or return the file
\* map when all are written; writeFileSync may throw.
GenWrite ==
    /\ pc = "gen_write"
    /\ IF fileIdx > Len(generatedCode.files)
       THEN /\ pc' = "validate"
            /\ fileIdx' = 1
            /\ UNCHANGED <<outputDir, events, outcome>>
       ELSE \/ /\ outputDir' = WriteFile(outputDir, generatedCode.files[fileIdx])
               /\ events' = Append(events, Event("write", CurrentTask,
                                                 generatedCode.files[fileIdx].file))
               /\ fileIdx' = fileIdx + 1
               /\ UNCHANGED <<pc, outcome>>
            \/ /\ pc' = "catch"
               /\ outcome' = Throw("Error", <<"write failed">>)
               /\ UNCHANGED <<outputDir, events, fileIdx>>
    /\ UNCHANGED <<planFile, plan, tasksToImplement, taskIdx, filterOperationIds,
                   operations, generatedCode, exitCode>>
    /\ UNCHANGED violations
    /\ ImplementFrame

\* Validate throwing when there is a violation.
ValidateAborting ==
    /\ pc = "validate"
    /\ LET found == ValidateFiles(generatedCode.files)
       IN /\ violations' = found
          /\ events' = Append(events, Event("validate", CurrentTask, ""))
          /\ IF found # <<>>
             THEN pc' = "catch" /\ outcome' = Throw("Error", <<"guardrail violations">>)
             ELSE /\ pc' = IF options.dryRun THEN "next" ELSE "write"
                  /\ UNCHANGED outcome
    /\ UNCHANGED <<planFile, plan, tasksToImplement, taskIdx, filterOperationIds,
                   operations, generatedCode, fileIdx, outputDir, exitCode>>
    /\ ImplementFrame

\* violations = guardrails.validate(generatedCode); each violation is printed
\* as a warning.
Validate ==
    /\ pc = "validate"
    /\ LET found == ValidateFiles(generatedCode.files)
       IN /\ violations' = found
          /\ events' = Append(events, Event("validate", CurrentTask, ""))
                          \o [k \in 1..Len(found) |->
                                 Event("warn", CurrentTask, found[k].file)]
    /\ pc' = IF options.dryRun THEN "next" ELSE "write"
    /\ UNCHANGED <<planFile, plan, tasksToImplement, taskIdx, filterOperationIds,
                   operations, generatedCode, fileIdx, outputDir, exitCode, outcome>>
    /\ ImplementFrame

\* Not a dry run: write the next generated file, or mark the task completed
\* when all are written; writeFileSync may throw.
WriteGenerated ==
    /\ pc = "write"
    /\ IF fileIdx > Len(generatedCode.files)
       THEN /\ plan' = [plan EXCEPT ![CurrentTask].status = "completed"]
            /\ pc' = "next"
            /\ UNCHANGED <<outputDir, events, outcome, fileIdx>>
       ELSE \/ /\ outputDir' = WriteFile(outputDir, generatedCode.files[fileIdx])
               /\ events' = Append(events, Event("write", CurrentTask,
                                                 generatedCode.files[fileIdx].file))
               /\ fileIdx' = fileIdx + 1
               /\ UNCHANGED <<pc, outcome, plan>>
            \/ /\ pc' = "catch"
               /\ outcome' = Throw("Error", <<"write failed">>)
               /\ UNCHANGED <<outputDir, events, fileIdx, plan>>
    /\ UNCHANGED <<planFile, tasksToImplement, taskIdx, filterOperationIds,
                   operations, generatedCode, exitCode>>
    /\ UNCHANGED violations
    /\ ImplementFrame

\* End of the loop body: the next selected task, or on to saving the plan.
NextTask ==
    /\ pc = "next"
    /\ IF taskIdx < Len(tasksToImplement)
       THEN taskIdx' = taskIdx + 1 /\ pc' = "start"
       ELSE pc' = "save" /\ UNCHANGED taskIdx
    /\ UNCHANGED <<planFile, plan, tasksToImplement, filterOperationIds, operations,
                   generatedCode, fileIdx, outputDir, events, exitCode, outcome>>
    /\ UNCHANGED violations
    /\ ImplementFrame

\* Save the updated plan unless this is a dry run; then the command succeeds.
SavePlan ==
    /\ pc = "save"
    /\ \/ /\ ~options.dryRun
          /\ planFile' = plan
          /\ events' = Append(events, Event("save", 0, "plan.yaml"))
          /\ pc' = "exited" /\ exitCode' = "0"
          /\ UNCHANGED outcome
       \/ /\ ~options.dryRun
          /\ pc' = "catch"
          /\ outcome' = Throw("Error", <<"write failed">>)
          /\ UNCHANGED <<planFile, events, exitCode>>
       \/ /\ options.dryRun
          /\ pc' = "exited" /\ exitCode' = "0"
          /\ UNCHANGED <<planFile, events, outcome>>
    /\ UNCHANGED <<plan, tasksToImplement, taskIdx, filterOperationIds, operations,
                   generatedCode, fileIdx, outputDir>>
    /\ UNCHANGED violations
    /\ ImplementFrame

\* Catch saving the plan before it exits.
CatchSavesPlan ==
    /\ pc = "catch"
    /\ planFile' = plan
    /\ pc' = "exited" /\ exitCode' = "1"
    /\ UNCHANGED <<plan, tasksToImplement, taskIdx, filterOperationIds,
                   operations, generatedCode, fileIdx, outputDir, events, outcome>>
    /\ UNCHANGED violations
    /\ ImplementFrame

\* catch (err): report and exit with code 1.
Catch ==
    /\ pc = "catch"
    /\ pc' = "exited" /\ exitCode' = "1"
    /\ UNCHANGED <<planFile, plan, tasksToImplement, taskIdx, filterOperationIds,
                   operations, generatedCode, fileIdx, outputDir, events, outcome>>
    /\ UNCHANGED violations
    /\ ImplementFrame

Next ==
    \/ SelectTasks
    \/ StartTask
    \/ GenLoad
    \/ GenExtract
    \/ GenEmit
    \/ GenMkdir
    \/ GenWrite
    \/ Validate
    \/ WriteGenerated
    \/ NextTask
    \/ SavePlan
    \/ Catch

Spec == Init /\ [][Next]_vars

----------------------------------------------------------------------------
(* Claims about generateForOperations and the `implement` command *)

\* C7: for a language other than java, typescript and python,
\* generateForOperations fails with an unsupported-language error: it never
\* produces a file map (not even an empty one) and the command never ends in
\* success after selecting a task.
C7_UnsupportedLanguageFails ==
    language \notin SupportedLanguages =>
        /\ ~generatedCode.defined
        /\ ~(pc = "exited" /\ exitCode = "0" /\ tasksToImplement # <<>>)

\* The effects on the output directory made while implementing task t.
OutputEventsOf(t) ==
    SelectSeq(events, LAMBDA e : e.task = t /\ e.kind \in {"mkdir", "write"})

\* C8: when extraction yields no descriptor, generateForOperations fails with
\* an error before emitting: no file map is returned and nothing under the
\* output directory is created or written for that call.
C8_EmptyExtractionStops ==
    (operations.defined /\ ~operations.threw /\ operations.value = <<>>) =>
        /\ pc \in {"catch", "exited"}
        /\ outcome = Throw("Error", <<"No operations found in the spec">>)
        /\ ~generatedCode.defined
        /\ OutputEventsOf(CurrentTask) = <<>>

\* The second of two selected tasks names no operation of the contract: the
\* command has stopped, and only the first task's files were written.
C8_Witness ==
    /\ pc = "exited"
    /\ operations.defined /\ ~operations.threw /\ operations.value = <<>>
    /\ filterOperationIds = Filter(<<UnknownId>>)
    /\ taskIdx = 2
    /\ OutputEventsOf(tasksToImplement[1]) # <<>>

\* C9: no generated file is written to the output directory before
\* Guardrails.validate has been called on the emitter output of the same task.
C9_ValidateBeforeWrite ==
    \A i \in 1..Len(events) :
        events[i].kind = "write" =>
            \E j \in 1..(i - 1) :
                events[j].kind = "validate" /\ events[j].task = events[i].task

\* C10: a dry run writes no files: the output directory and the plan file
\* stay as they were before it started, up to and including its end.
C10_DryRunWritesNothing ==
    options.dryRun =>
        /\ outputDir = NoDirectory
        /\ \A i \in 1..Len(events) : events[i].kind \notin {"mkdir", "write", "save"}

----------------------------------------------------------------------------
(* Text at the level of characters (for toLowerCase, includes, split) *)

\* The characters of each text of the model.
Chars(s) ==
    CASE s = "listPets" ->
           <<"l", "i", "s", "t", "P", "e", "t", "s">>
      [] s = "createPet" ->
           <<"c", "r", "e", "a", "t", "e", "P", "e", "t">>
      [] s = "getPet" ->
           <<"g", "e", "t", "P", "e", "t">>
      [] s = "List pets" ->
           <<"L", "i", "s", "t", " ", "p", "e", "t", "s">>
      [] s = "Get a pet" ->
           <<"G", "e", "t", " ", "a", " ", "p", "e", "t">>
      [] s = "pets" ->
           <<"p", "e", "t", "s">>
      [] s = "Inventory" ->
           <<"I", "n", "v", "e", "n", "t", "o", "r", "y">>
      [] s = "/pets" ->
           <<"/", "p", "e", "t", "s">>
      [] s = "/pets/" ->
           <<"/", "p", "e", "t", "s", "/">>
      [] s = "{" ->
           <<"{">>
      [] s = "id" ->
           <<"i", "d">>
      [] s = "}" ->
           <<"}">>
      [] s = "create" ->
           <<"c", "r", "e", "a", "t", "e">>
      [] s = "add" ->
           <<"a", "d", "d">>
      [] s = "new" ->
           <<"n", "e", "w">>
      [] s = "make" ->
           <<"m", "a", "k", "e">>
      [] s = "post" ->
           <<"p", "o", "s", "t">>
      [] s = "list" ->
           <<"l", "i", "s", "t">>
      [] s = "get all" ->
           <<"g", "e", "t", " ", "a", "l", "l">>
      [] s = "fetch all" ->
           <<"f", "e", "t", "c", "h", " ", "a", "l", "l">>
      [] s = "show all" ->
           <<"s", "h", "o", "w", " ", "a", "l", "l">>
      [] s = "all" ->
           <<"a", "l", "l">>
      [] s = "get" ->
           <<"g", "e", "t">>
      [] s = "fetch" ->
           <<"f", "e", "t", "c", "h">>
      [] s = "retrieve" ->
           <<"r", "e", "t", "r", "i", "e", "v", "e">>
      [] s = "find" ->
           <<"f", "i", "n", "d">>
      [] s = "show" ->
           <<"s", "h", "o", "w">>
      [] s = "read" ->
           <<"r", "e", "a", "d">>
      [] s = "update" ->
           <<"u", "p", "d", "a", "t", "e">>
      [] s = "modify" ->
           <<"m", "o", "d", "i", "f", "y">>
      [] s = "edit" ->
           <<"e", "d", "i", "t">>
      [] s = "change" ->
           <<"c", "h", "a", "n", "g", "e">>
      [] s = "put" ->
           <<"p", "u", "t">>
      [] s = "patch" ->
           <<"p", "a", "t", "c", "h">>
      [] s = "delete" ->
           <<"d", "e", "l", "e", "t", "e">>
      [] s = "remove" ->
           <<"r", "e", "m", "o", "v", "e">>
      [] s = "destroy" ->
           <<"d", "e", "s", "t", "r", "o", "y">>
      [] s = "Implement: " ->
           <<"I", "m", "p", "l", "e", "m", "e", "n", "t", ":", " ">>
      [] s = "..." ->
           <<".", ".", ".">>
      [] s = "create and list all pets" ->
           <<"c", "r", "e", "a", "t", "e", " ", "a", "n", "d", " ", "l", "i", "s", "t", " ", "a", "l", "l", " ", "p", "e", "t", "s">>
      [] s = "launch rockets" ->
           <<"l", "a", "u", "n", "c", "h", " ", "r", "o", "c", "k", "e", "t", "s">>
      [] s = "list pets" ->
           <<"l", "i", "s", "t", " ", "p", "e", "t", "s">>
      [] s = "Get pet" ->
           <<"G", "e", "t", " ", "p", "e", "t">>
      [] s = "inventory" ->
           <<"i", "n", "v", "e", "n", "t", "o", "r", "y">>
      [] s = " show all pets" ->
           <<" ", "s", "h", "o", "w", " ", "a", "l", "l", " ", "p", "e", "t", "s">>
      [] s = "pet" ->
           <<"p", "e", "t">>
      [] s = "delete pets" ->
           <<"d", "e", "l", "e", "t", "e", " ", "p", "e", "t", "s">>
      [] s = "update a pet" ->
           <<"u", "p", "d", "a", "t", "e", " ", "a", " ", "p", "e", "t">>
      [] s = "create and list all pets and then fetch one pet by its id" ->
           <<"c", "r", "e", "a", "t", "e", " ", "a", "n", "d", " ", "l", "i", "s", "t", " ", "a", "l", "l", " ", "p", "e", "t", "s", " ", "a", "n", "d", " ", "t", "h", "e", "n", " ", "f", "e", "t", "c", "h", " ", "o", "n", "e", " ", "p", "e", "t", " ", "b", "y", " ", "i", "t", "s", " ", "i", "d">>
      [] s = "old intent" ->
           <<"o", "l", "d", " ", "i", "n", "t", "e", "n", "t">>
      [] OTHER -> <<>>

UpperLetters == <<"A", "B", "C", "D", "E", "F", "G", "H", "I", "J", "K", "L", "M",
                  "N", "O", "P", "Q", "R", "S", "T", "U", "V", "W", "X", "Y", "Z">>
LowerLetters == <<"a", "b", "c", "d", "e", "f", "g", "h", "i", "j", "k", "l", "m",
                  "n", "o", "p", "q", "r", "s", "t", "u", "v", "w", "x", "y", "z">>

\* String.prototype.toLowerCase / toUpperCase on one character.
LowerChar(c) ==
    IF \E i \in 1..Len(UpperLetters) : UpperLetters[i] = c
    THEN LowerLetters[CHOOSE i \in 1..Len(UpperLetters) : UpperLetters[i] = c]
    ELSE c
\* (toUpperCase gives a text: the upper case of the sharp s is "SS").
UpperChar(c) ==
    IF \E i \in 1..Len(LowerLetters) : LowerLetters[i] = c
    THEN <<UpperLetters[CHOOSE i \in 1..Len(LowerLetters) : LowerLetters[i] = c]>>
    ELSE IF c = "ß" THEN <<"S", "S">>
    ELSE <<c>>

\* String.prototype.toLowerCase
ToLowerCase(t) == [i \in 1..Len(t) |-> LowerChar(t[i])]

\* String.prototype.includes: t occurs in s as a substring.
IncludesText(s, t) ==
    \E i \in 0..(Len(s) - Len(t)) : SubSeq(s, i + 1, i + Len(t)) = t

RECURSIVE SplitWhitespace(_, _, _)
\* String.prototype.split(/\s+/): cur is the piece being read, inRun whether the
\* previous character was white space.
SplitWhitespace(s, cur, inRun) ==
    IF s = <<>> THEN <<cur>>
    ELSE IF Head(s) = " "
         THEN (IF inRun THEN <<>> ELSE <<cur>>) \o SplitWhitespace(Tail(s), <<>>, TRUE)
         ELSE SplitWhitespace(Tail(s), Append(cur, Head(s)), FALSE)

\* The text of a path template given by its tokens.
RECURSIVE PathText(_)
PathText(pathKey) ==
    IF pathKey = <<>> THEN <<>> ELSE Chars(Head(pathKey)) \o PathText(Tail(pathKey))

----------------------------------------------------------------------------
(* The `plan` command: analyzeIntentAndCreateTasks *)

\* actionKeywords, in insertion order.
ActionKeywords ==
    <<[action |-> "create", keywords |-> <<"create", "add", "new", "make", "post">>],
      [action |-> "list", keywords |-> <<"list", "get all", "fetch all", "show all", "all">>],
      [action |-> "get", keywords |-> <<"get", "fetch", "retrieve", "find", "show", "read">>],
      [action |-> "update", keywords |-> <<"update", "modify", "edit", "change", "put", "patch">>],
      [action |-> "delete", keywords |-> <<"delete", "remove", "destroy">>]>>

\* matchedActions: the actions one of whose keywords occurs in the intent.
MatchedActions(intentLower) ==
    {ActionKeywords[a].action : a \in
        {a \in 1..Len(ActionKeywords) :
            \E k \in 1..Len(ActionKeywords[a].keywords) :
                IncludesText(intentLower, Chars(ActionKeywords[a].keywords[k]))}}

\* EntityMatch with words longer than 4.
EntityMatchOver4(intentWords, pathKey, operation) ==
    LET opId == ToLowerCase(Chars(operation.operationId))
        opSummary == IF Truthy(operation.summary)
                     THEN ToLowerCase(Chars(operation.summary)) ELSE <<>>
        opTags == [t \in 1..Len(operation.tags) |-> ToLowerCase(Chars(operation.tags[t]))]
        opPath == ToLowerCase(PathText(pathKey))
    IN \E w \in 1..Len(intentWords) :
          /\ Len(intentWords[w]) > 4
          /\ \/ IncludesText(opId, intentWords[w])
             \/ IncludesText(opPath, intentWords[w])
             \/ IncludesText(opSummary, intentWords[w])
             \/ \E t \in 1..Len(opTags) : IncludesText(opTags[t], intentWords[w])

\* Check 1: a word longer than 2 occurs in the id, path, summary or a tag.
EntityMatch(intentWords, pathKey, operation) ==
    LET opId == ToLowerCase(Chars(operation.operationId))
        opSummary == IF Truthy(operation.summary)
                     THEN ToLowerCase(Chars(operation.summary)) ELSE <<>>
        opTags == [t \in 1..Len(operation.tags) |-> ToLowerCase(Chars(operation.tags[t]))]
        opPath == ToLowerCase(PathText(pathKey))
    IN \E w \in 1..Len(intentWords) :
          /\ Len(intentWords[w]) > 2
          /\ \/ IncludesText(opId, intentWords[w])
             \/ IncludesText(opPath, intentWords[w])
             \/ IncludesText(opSummary, intentWords[w])
             \/ \E t \in 1..Len(opTags) : IncludesText(opTags[t], intentWords[w])

\* ActionMatch with `list` fitting GET on every path.
ActionMatchListAnyPath(matchedActions, pathKey, method) ==
    \/ "create" \in matchedActions /\ method = "post"
    \/ "list" \in matchedActions /\ method = "get"
    \/ "get" \in matchedActions /\ method = "get"
    \/ "update" \in matchedActions /\ (method = "put" \/ method = "patch")
    \/ "delete" \in matchedActions /\ method = "delete"

\* Check 2: the method (the path-item key as written) fits a matched action.
ActionMatch(matchedActions, pathKey, method) ==
    \/ "create" \in matchedActions /\ method = "post"
    \/ "list" \in matchedActions /\ method = "get"
          /\ ~IncludesText(PathText(pathKey), <<"{">>)
    \/ "get" \in matchedActions /\ method = "get"
    \/ "update" \in matchedActions /\ (method = "put" \/ method = "patch")
    \/ "delete" \in matchedActions /\ method = "delete"

\* DirectIdMatch with words longer than 2.
DirectIdMatchOver2(intentWords, operation) ==
    \E w \in 1..Len(intentWords) :
        /\ Len(intentWords[w]) > 2
        /\ IncludesText(ToLowerCase(Chars(operation.operationId)), intentWords[w])

\* The second pass: a word longer than 3 occurs in the lower-cased id.
DirectIdMatch(intentWords, operation) ==
    \E w \in 1..Len(intentWords) :
        /\ Len(intentWords[w]) > 3
        /\ IncludesText(ToLowerCase(Chars(operation.operationId)), intentWords[w])

\* PushNew without the includes test.
PushAlways(list, id) == Append(list, id)

\* if (!matchedOperations.includes(id)) matchedOperations.push(id)
PushNew(list, id) == IF Includes(list, id) THEN list ELSE Append(list, id)

\* The inner loop body of analyzeIntentAndCreateTasks on one path-item entry;
\* acc.threw records the TypeError of reading `.operationId` of null.
MatchEntry(acc, pathKey, entry, intentWords, matchedActions) ==
    IF acc.threw THEN acc
    ELSE IF entry.value.kind = "null" THEN [acc EXCEPT !.threw = TRUE]
    ELSE IF entry.value.kind # "object" \/ ~Truthy(entry.value.operationId) THEN acc
    ELSE LET id == entry.value.operationId
             first == IF EntityMatch(intentWords, pathKey, entry.value)
                         /\ (ActionMatch(matchedActions, pathKey, entry.key)
                             \/ Cardinality(matchedActions) = 0)
                      THEN PushNew(acc.value, id) ELSE acc.value
             second == IF DirectIdMatch(intentWords, entry.value)
                       THEN PushNew(first, id) ELSE first
         IN [acc EXCEPT !.value = second]

RECURSIVE MatchItem(_, _, _, _, _)
\* for (const [method, operation] of Object.entries(pathItem))
MatchItem(acc, pathKey, item, intentWords, matchedActions) ==
    IF item = <<>> THEN acc
    ELSE MatchItem(MatchEntry(acc, pathKey, Head(item), intentWords, matchedActions),
                   pathKey, Tail(item), intentWords, matchedActions)

RECURSIVE MatchPaths(_, _, _, _)
\* for (const [pathKey, pathItem] of Object.entries(spec.paths || {}))
MatchPaths(acc, paths, intentWords, matchedActions) ==
    IF paths = <<>> THEN acc
    ELSE MatchPaths(MatchItem(acc, Head(paths).key, Head(paths).item,
                              intentWords, matchedActions),
                    Tail(paths), intentWords, matchedActions)

\* matchedOperations: [threw, value], value the matched ids in push order.
MatchedOperations(text, contract) ==
    LET intentLower == ToLowerCase(Chars(text))
        intentWords == SplitWhitespace(intentLower, <<>>, FALSE)
    IN MatchPaths([threw |-> FALSE, value |-> <<>>], contract.paths,
                  intentWords, MatchedActions(intentLower))

\* extractTaskTitle's limits: titles longer than TitleLimit keep TitleKeep
\* characters and get '...' appended.
TitleLimit == 50
TitleKeep == 47

\* ExtractTaskTitle keeping TitleLimit characters before the dots.
ExtractTaskTitleKeepsLimit(chars) ==
    LET title == IF chars = <<>> THEN <<>>
                 ELSE UpperChar(Head(chars)) \o Tail(chars)
    IN IF Len(title) > TitleLimit
       THEN SubSeq(title, 1, TitleLimit) \o <<".", ".", ".">>
       ELSE title

\* extractTaskTitle, on the characters of the intent.
ExtractTaskTitle(chars) ==
    LET title == IF chars = <<>> THEN <<>>
                 ELSE UpperChar(Head(chars)) \o Tail(chars)
    IN IF Len(title) > TitleLimit
       THEN SubSeq(title, 1, TitleKeep) \o <<".", ".", ".">>
       ELSE title

\* Values of Date.now() / new Date().
Timestamps == {1, 2}

\* analyzeIntentAndCreateTasks, called at time now: [threw, value], value the
\* task list: one task bundling the matched operations, or none.
AnalyzeIntentAndCreateTasks(text, contract, now) ==
    LET matched == MatchedOperations(text, contract)
    IN IF matched.threw THEN [threw |-> TRUE, value |-> <<>>]
       ELSE [threw |-> FALSE,
             value |->
                IF Len(matched.value) > 0
                THEN <<[id |-> TaskId(now),
                        title |-> ExtractTaskTitle(Chars(text)),
                        description |-> Chars("Implement: ") \o Chars(text),
                        status |-> "pending",
                        operations |-> matched.value]>>
                ELSE <<>>]

\* One console line of listAvailableOperations.
Log(method, pathKey, operationId) ==
    [kind |-> "log", method |-> method, path |-> pathKey, operationId |-> operationId]

\* listAvailableOperations: a line per operation, in document order.
ListAvailableOperations(contract) ==
    LET ops == SelectSeq(Flatten(contract.paths),
                         LAMBDA e : e.value.kind = "object" /\ Truthy(e.value.operationId))
    IN [i \in 1..Len(ops) |->
           Log(ToUpperCase(ops[i].key), ops[i].path, ops[i].value.operationId)]

\* Path-item entries of the contracts `plan` is run on.
PlanEntry(pathKey, key, value) == [path |-> pathKey, key |-> key, value |-> value]
PlanEntries ==
    {PlanEntry(PetsPath, "get", OperationOf("listPets")),
     PlanEntry(PetsPath, "post", OperationOf("createPet")),
     PlanEntry(PetByIdPath, "get", OperationOf("getPet")),
     PlanEntry(PetByIdPath, "get", OperationOf("listPets")),
     PlanEntry(PetByIdPath, "put", OperationOf("createPet")),
     PlanEntry(PetByIdPath, "patch", OperationOf("getPet")),
     PlanEntry(PetsPath, "delete", OperationOf("listPets")),
     PlanEntry(PetsPath, "get", NoIdObject),
     PlanEntry(PetsPath, "get", NullValue)}

PlanContracts ==
    {PetsContract}
        \cup {Contract("Pet Store", flat) :
                 flat \in {f \in SeqsUpTo(PlanEntries, MaxEntries) : WellNested(f)}}

\* The <intent> argument.
Intents ==
    {"create and list all pets", "launch rockets", "list pets", "Get pet", "pets",
     "inventory", " show all pets", "delete pets", "update a pet", "id"}

\* The file at options.output: absent, or a plan saved by an earlier run.
NoPlanOutput == [exists |-> FALSE, intent |-> "", createdAt |-> 0, tasks |-> <<>>]
OldPlanOutput ==
    [exists |-> TRUE, intent |-> "old intent", createdAt |-> 0,
     tasks |-> <<[id |-> TaskId(0), title |-> ExtractTaskTitle(Chars("old intent")),
                  description |-> Chars("Implement: ") \o Chars("old intent"),
                  status |-> "completed", operations |-> <<"getPet">>]>>]

InitPlan ==
    /\ pc = "plan_load"
    /\ spec \in PlanContracts \cup {MissingContract}
    /\ intent \in Intents
    /\ tasks = <<>>
    /\ planOutput \in {NoPlanOutput, OldPlanOutput}
    /\ events = <<>>
    /\ exitCode = "running"
    /\ outcome = NoOutcome
    /\ filterOperationIds = Unused /\ operations = Unused /\ language = Unused
    /\ op = Unused /\ args = Unused /\ path = Unused /\ query = Unused
    /\ response = Unused
    /\ options = Unused /\ planFile = Unused /\ plan = Unused
    /\ tasksToImplement = Unused /\ taskIdx = Unused /\ generatedCode = Unused
    /\ fileIdx = Unused /\ outputDir = Unused /\ violations = Unused
    /\ specFile = Unused /\ requests = Unused /\ data = Unused

\* What no step of `plan` changes.
PlanFrame ==
    /\ UNCHANGED <<spec, intent, filterOperationIds, operations, language>>
    /\ UNCHANGED <<op, args, path, query, response>>
    /\ UNCHANGED <<options, planFile, plan, tasksToImplement, taskIdx, generatedCode,
                   fileIdx, outputDir, violations>>
    /\ UNCHANGED syncVars

\* Load the contract; a missing contract file ends the command with code 1.
PlanLoad ==
    /\ pc = "plan_load"
    /\ IF spec.exists
       THEN pc' = "plan_analyze" /\ UNCHANGED exitCode
       ELSE pc' = "exited" /\ exitCode' = "1"
    /\ UNCHANGED <<tasks, planOutput, events, outcome>>
    /\ PlanFrame

\* tasks = analyzeIntentAndCreateTasks(intent, spec)
PlanAnalyze ==
    /\ pc = "plan_analyze"
    /\ \E now \in Timestamps :
          LET r == AnalyzeIntentAndCreateTasks(intent, spec, now)
          IN IF r.threw
             THEN /\ pc' = "catch"
                  /\ outcome' = Throw("TypeError", <<>>)
                  /\ UNCHANGED tasks
             ELSE /\ tasks' = r.value
                  /\ pc' = IF Len(r.value) = 0 THEN "plan_nomatch" ELSE "plan_save"
                  /\ UNCHANGED outcome
    /\ UNCHANGED <<planOutput, events, exitCode>>
    /\ PlanFrame

\* PlanNoMatch saving a plan without tasks.
PlanNoMatchSavesPlan ==
    /\ pc = "plan_nomatch"
    /\ events' = events \o ListAvailableOperations(spec)
    /\ planOutput' = [exists |-> TRUE, intent |-> intent, createdAt |-> 0,
                      tasks |-> tasks]
    /\ pc' = "exited" /\ exitCode' = "0"
    /\ UNCHANGED <<tasks, outcome>>
    /\ PlanFrame

\* No task: print the intent and the available operations, exit with code 0.
PlanNoMatch ==
    /\ pc = "plan_nomatch"
    /\ events' = events \o ListAvailableOperations(spec)
    /\ pc' = "exited" /\ exitCode' = "0"
    /\ UNCHANGED <<tasks, planOutput, outcome>>
    /\ PlanFrame

\* PlanSave adding the tasks to those of the plan already in the file.
PlanSaveAppend ==
    /\ pc = "plan_save"
    /\ \/ /\ \E now \in Timestamps :
                planOutput' = [exists |-> TRUE, intent |-> intent, createdAt |-> now,
                               tasks |-> planOutput.tasks \o tasks]
          /\ events' = Append(events, Event("save", 0, "plan.yaml"))
          /\ pc' = "exited" /\ exitCode' = "0"
          /\ UNCHANGED outcome
       \/ /\ pc' = "catch"
          /\ outcome' = Throw("Error", <<"write failed">>)
          /\ UNCHANGED <<planOutput, events, exitCode>>
    /\ UNCHANGED tasks
    /\ PlanFrame

\* Write the plan {intent, createdAt, tasks} to options.output; writeFileSync
\* may throw.
PlanSave ==
    /\ pc = "plan_save"
    /\ \/ /\ \E now \in Timestamps :
                planOutput' = [exists |-> TRUE, intent |-> intent, createdAt |-> now,
                               tasks |-> tasks]
          /\ events' = Append(events, Event("save", 0, "plan.yaml"))
          /\ pc' = "exited" /\ exitCode' = "0"
          /\ UNCHANGED outcome
       \/ /\ pc' = "catch"
          /\ outcome' = Throw("Error", <<"write failed">>)
          /\ UNCHANGED <<planOutput, events, exitCode>>
    /\ UNCHANGED tasks
    /\ PlanFrame

\* catch (err): report and exit with code 1.
PlanCatch ==
    /\ pc = "catch"
    /\ pc' = "exited" /\ exitCode' = "1"
    /\ UNCHANGED <<tasks, planOutput, events, outcome>>
    /\ PlanFrame

NextPlan ==
    \/ PlanLoad
    \/ PlanAnalyze
    \/ PlanNoMatch
    \/ PlanSave
    \/ PlanCatch

SpecPlan == InitPlan /\ [][NextPlan]_vars

----------------------------------------------------------------------------
(* Claims about the `plan` command *)

\* The matched set: the operations of the task, none when there is no task.
Matched == IF tasks = <<>> THEN <<>> ELSE tasks[1].operations

\* analyzeIntentAndCreateTasks has returned.
Analyzed == pc \in {"plan_nomatch", "plan_save"}

\* The intent's tokens and the action categories detected in it.
IntentTokens == SplitWhitespace(ToLowerCase(Chars(intent)), <<>>, FALSE)
Detected == MatchedActions(ToLowerCase(Chars(intent)))

\* The texts of an operation an intent token may occur in.
OperationTexts(e) ==
    {ToLowerCase(Chars(e.value.operationId)), ToLowerCase(PathText(e.path))}
        \cup (IF Truthy(e.value.summary) THEN {ToLowerCase(Chars(e.value.summary))} ELSE {})
        \cup {ToLowerCase(Chars(t)) : t \in Range(e.value.tags)}

\* Some token longer than n occurs in one of the texts.
TokenOver(n, texts) ==
    \E w \in Range(IntentTokens) : Len(w) > n /\ \E t \in texts : IncludesText(t, w)

\* The verbs an action category stands for on a path.
VerbsOf(action, pathKey) ==
    CASE action = "create" -> {"post"}
      [] action = "list" -> IF Includes(pathKey, "{") THEN {} ELSE {"get"}
      [] action = "get" -> {"get"}
      [] action = "update" -> {"put", "patch"}
      [] action = "delete" -> {"delete"}
      [] OTHER -> {}

\* The inclusion rule, for a path-item entry that carries an operationId.
ClaimedIncluded(e) ==
    \/ /\ TokenOver(2, OperationTexts(e))
       /\ \/ \E a \in Detected : e.key \in VerbsOf(a, e.path)
          \/ Detected = {}
    \/ TokenOver(3, {ToLowerCase(Chars(e.value.operationId))})

\* C11: an operation with an operationId is in the matched set if and only if
\* (entity match and (action match or no action category detected)) or some
\* intent token longer than 3 characters occurs in its lower-cased id.
C11_InclusionRule ==
    (Analyzed /\ WellFormedContract) =>
        \A e \in Range(DocOperations) :
            Includes(Matched, e.value.operationId) <=> ClaimedIncluded(e)

\* An operation admitted by the second pass alone next to an entity-matched
\* one that is left out.
C11_Witness ==
    /\ Analyzed /\ WellFormedContract
    /\ \E e \in Range(DocOperations) :
          /\ Includes(Matched, e.value.operationId)
          /\ ~(\E a \in Detected : e.key \in VerbsOf(a, e.path))
          /\ Detected # {}
    /\ \E e \in Range(DocOperations) :
          /\ ~Includes(Matched, e.value.operationId)
          /\ TokenOver(2, OperationTexts(e))

\* C12: for listPets (GET /pets), createPet (POST /pets), getPet (GET
\* /pets/{id}) and the intent "create and list all pets" the matched set is
\* exactly {createPet, listPets}; and whenever `list` is detected and `get` is
\* not, a GET operation on a path with a `{param}` segment is matched only if
\* an intent token longer than 3 characters occurs in its id.
C12_ListExcludesItemPaths ==
    /\ (pc # "plan_load" /\ pc # "plan_analyze" /\ spec = PetsContract
           /\ intent = "create and list all pets") =>
          /\ tasks # <<>>
          /\ Range(Matched) = {"createPet", "listPets"}
    /\ (Analyzed /\ WellFormedContract /\ "list" \in Detected /\ "get" \notin Detected) =>
          \A e \in Range(DocOperations) :
              (e.key = "get" /\ Includes(e.path, "{")
                  /\ Includes(Matched, e.value.operationId)) =>
                 TokenOver(3, {ToLowerCase(Chars(e.value.operationId))})

\* The plan saved for the example holds createPet and listPets, not getPet.
C12_Witness ==
    /\ pc = "exited" /\ exitCode = "0"
    /\ spec = PetsContract /\ intent = "create and list all pets"
    /\ planOutput.exists /\ planOutput.intent = intent
    /\ Range(planOutput.tasks[1].operations) = {"createPet", "listPets"}

\* No intent token occurs in the id, path, summary or a tag of any operation.
NoOverlap ==
    \A e \in Range(DocOperations) :
        \A w \in Range(IntentTokens) : \A t \in OperationTexts(e) : ~IncludesText(t, w)

\* C13: when no intent token overlaps any operation's id, path, summary or
\* tags, planning yields no task: the command ends with exit code 0 after
\* listing the available operations, and the plan file is neither created nor
\* overwritten.
C13_NoMatchLeavesPlanFile ==
    (spec.exists /\ WellFormedContract /\ NoOverlap) =>
        /\ tasks = <<>>
        /\ pc \notin {"plan_save", "catch"}
        /\ planOutput \in {NoPlanOutput, OldPlanOutput}
        /\ pc = "exited" =>
              /\ exitCode = "0"
              /\ events = ListAvailableOperations(spec)

\* "launch rockets" against the pets contract: ended with code 0, the three
\* operations listed.
C13_Witness ==
    /\ pc = "exited" /\ exitCode = "0"
    /\ spec = PetsContract /\ intent = "launch rockets"
    /\ NoOverlap
    /\ Len(events) = 3 /\ events[3].operationId = "getPet"

\* C14: when the matched set is non-empty, the invocation produces exactly one
\* task, pending, holding the whole matched set, its description echoing the
\* intent; the plan it writes holds exactly that task and the intent.
C14_OneTaskPerInvocation ==
    /\ (pc \in {"plan_nomatch", "plan_save", "exited"} /\ spec.exists
           /\ ~MatchedOperations(intent, spec).threw
           /\ MatchedOperations(intent, spec).value # <<>>
           /\ outcome = NoOutcome) =>
          /\ Len(tasks) = 1
          /\ tasks[1].status = "pending"
          /\ tasks[1].operations = MatchedOperations(intent, spec).value
          /\ EndsWith(tasks[1].description, Chars(intent))
    /\ (\E i \in 1..Len(events) : events[i].kind = "save") =>
          /\ planOutput.exists
          /\ planOutput.intent = intent
          /\ planOutput.tasks = tasks
          /\ Len(planOutput.tasks) = 1

\* A plan written over the plan of an earlier invocation.
C14_Witness ==
    /\ pc = "exited" /\ exitCode = "0"
    /\ \E i \in 1..Len(events) : events[i].kind = "save"
    /\ planOutput.tasks = tasks /\ Len(tasks) = 1
    /\ Len(tasks[1].operations) = 2
    /\ planOutput.tasks # OldPlanOutput.tasks

\* An operation of the document that carries id and is admitted by the rule.
Admitted(i, id) ==
    DocOperations[i].value.operationId = id /\ ClaimedIncluded(DocOperations[i])

\* Position in the document of the first admitted operation that carries id.
FirstSeen(id) ==
    CHOOSE i \in 1..Len(DocOperations) :
        Admitted(i, id) /\ \A j \in 1..(i - 1) : ~Admitted(j, id)

\* C15: the operation list of a task holds no operation id twice and is in
\* first-seen document traversal order, whichever pass admitted an operation.
C15_MatchedUniqueInDocumentOrder ==
    tasks # <<>> =>
        /\ \A i, j \in 1..Len(Matched) : i # j => Matched[i] # Matched[j]
        /\ \A i \in 1..Len(Matched) :
              \E k \in 1..Len(DocOperations) : Admitted(k, Matched[i])
        /\ \A i, j \in 1..Len(Matched) : i < j => FirstSeen(Matched[i]) < FirstSeen(Matched[j])

\* Both passes admit the first operation of the document, and a later
\* operation carries the same id.
C15_Witness ==
    /\ tasks # <<>>
    /\ Len(DocOperations) = 2
    /\ DocOperations[1].value.operationId = DocOperations[2].value.operationId
    /\ ClaimedIncluded(DocOperations[2])
    /\ TokenOver(3, {ToLowerCase(Chars(DocOperations[1].value.operationId))})
    /\ TokenOver(2, OperationTexts(DocOperations[1]))
    /\ Detected = {}
    /\ Len(Matched) = 1

\* The operation has an entity match: an intent token longer than 2 occurs in
\* its id, path, summary or a tag.
EntityMatched(e) == TokenOver(2, OperationTexts(e))

\* The method of the operation fits a detected action category.
ActionFits(e) == \E a \in Detected : e.key \in VerbsOf(a, e.path)

\* C29: the catch-all pass never admits an operation without an entity
\* match: every operation of the matched set has an entity match; when no
\* action category is detected the matched set is exactly the set of the
\* entity-matched operations; and an operation the first pass would not admit
\* is in the matched set only when its entity match was turned down by an
\* action mismatch.
C29_CatchAllWithinEntityMatch ==
    (Analyzed /\ WellFormedContract) =>
        /\ \A e \in Range(DocOperations) :
              Includes(Matched, e.value.operationId) => EntityMatched(e)
        /\ Detected = {} =>
              Range(Matched) =
                 {e.value.operationId : e \in {d \in Range(DocOperations) : EntityMatched(d)}}
        /\ \A e \in Range(DocOperations) :
              (Includes(Matched, e.value.operationId) /\ ~ActionFits(e)) =>
                 (Detected = {} \/ (EntityMatched(e) /\ Detected # {}))

\* "delete pets" against the pets contract: listPets alone is matched, by the
\* catch-all pass, its entity match having met an action mismatch.
C29_Witness ==
    /\ Analyzed /\ WellFormedContract
    /\ spec = PetsContract /\ intent = "delete pets"
    /\ Detected = {"delete"}
    /\ Matched = <<"listPets">>
    /\ \A e \in Range(DocOperations) : EntityMatched(e) /\ ~ActionFits(e)

----------------------------------------------------------------------------
(* Specification of the guardrail scan: one call of Guardrails.validate. *)

\* Most lines in a scanned file.
MaxLines == 2

\* Texts of lines.
FetchLine ==
    <<"const", " ", "res", " ", "=", " ", "await", " ", "fetch", "(", "\"", "https://",
      "api.example.com/x", "\"", ")">>
AxiosLine == <<"axios", "(", ")">>
BasePathLine == <<"basePath", ":", " ", "\"", "https://", "api.example.com", "\"">>
PlainLine == <<"x", " ", "=", " ", "1">>

LineBodies ==
    {FetchLine, AxiosLine, BasePathLine, PlainLine,
     <<"pre", "fetch", " ", "(", ")">>,
     <<"new", " ", " ", "HttpClient", "(", ")">>,
     <<"renew", "\t", "OkHttpClient", " ", "(", ")">>,
     <<"requests", ".", "post", " ", "(", ")">>,
     <<"import", " ", "urllib", ".", "request">>,
     <<"'", "http://", "'">>}

\* What a line may start with: nothing, or a comment marker.
SlashComment == <<" ", "/", "/", " ">>
HashComment == <<"#", " ">>

GuardLines ==
    {lead \o body : lead \in {<<>>, SlashComment, HashComment}, body \in LineBodies}
        \cup {<<" ", "*", " ">> \o FetchLine, <<>>}

\* A file text given by its lines.
TextContent(lines) == [template |-> "text", operations |-> <<>>, lines |-> lines]

GuardFileNames ==
    {"client.ts", "client.js", "Client.java", "client.py", "notes.txt", "layout.xml"}

\* The file maps handed to validate: one file, or a skipped file and one more.
GuardFileMaps ==
    {<<File(n, TextContent(lines))>> :
        n \in GuardFileNames,
        lines \in UNION {[1..k -> GuardLines] : k \in 1..MaxLines}}
    \cup {<<File("parent.pom", TextContent(<<l>>)), File(n, TextContent(<<l>>))>> :
             n \in GuardFileNames, l \in GuardLines}

InitGuard ==
    /\ pc = "guard"
    /\ generatedCode \in [defined : {TRUE}, files : GuardFileMaps]
    /\ violations = <<>>
    /\ spec = Unused /\ filterOperationIds = Unused /\ operations = Unused
    /\ language = Unused
    /\ op = Unused /\ args = Unused /\ path = Unused /\ query = Unused
    /\ response = Unused /\ outcome = Unused
    /\ options = Unused /\ planFile = Unused /\ plan = Unused
    /\ tasksToImplement = Unused /\ taskIdx = Unused
    /\ fileIdx = Unused /\ outputDir = Unused /\ events = Unused
    /\ exitCode = Unused
    /\ intent = Unused /\ tasks = Unused /\ planOutput = Unused
    /\ specFile = Unused /\ requests = Unused /\ data = Unused

\* violations = guardrails.validate(files)
GuardValidate ==
    /\ pc = "guard"
    /\ violations' = ValidateFiles(generatedCode.files)
    /\ pc' = "guarded"
    /\ UNCHANGED <<language, options, planFile, plan, tasksToImplement, taskIdx,
                   generatedCode, fileIdx, outputDir, events, exitCode>>
    /\ UNCHANGED extractVars
    /\ UNCHANGED clientVars
    /\ UNCHANGED planVars
    /\ UNCHANGED syncVars

NextGuard == GuardValidate

SpecGuard == InitGuard /\ [][NextGuard]_vars

----------------------------------------------------------------------------
(* Claims about the guardrail scan *)

\* The files of the map that validate scans.
ScannedFiles ==
    {f \in Range(generatedCode.files) : Extension(f.file) \notin {".xml", ".pom"}}

Reported(rule, filePath, line) ==
    \E k \in 1..Len(violations) : violations[k] = Violation(rule, filePath, line)

\* The rule looks at files of this language.
InScope(rule, lang) == ~rule.restricted \/ lang \in rule.languages

\* The line has to be reported for the rule in a file of this language.
Forbidden(rule, line, lang) ==
    /\ InScope(rule, lang)
    /\ ~IsComment(line, lang)
    /\ Test(rule.pattern, line)
    /\ \A k \in 1..Len(rule.skipPatterns) : ~Test(rule.skipPatterns[k], line)

\* C16: the scan of a file reports a violation for (rule, line i), i counted
\* from 1, if and only if the rule applies to the file's inferred language,
\* line i is no comment line, the forbidden pattern matches it and no skip
\* pattern does; a fetch("https://...") line of a .ts file is reported for
\* no-fetch, the same text behind `//` is not reported at all, and a
\* basePath: "https://..." line is not reported for no-raw-url.
C16_ViolationIffForbiddenLine ==
    pc = "guarded" =>
        /\ \A k \in 1..Len(violations) :
              \E f \in ScannedFiles :
                 /\ violations[k].file = f.file
                 /\ violations[k].line \in 1..Len(f.content.lines)
        /\ \A f \in ScannedFiles : \A i \in 1..Len(f.content.lines) :
              LET line == f.content.lines[i]
              IN /\ \A r \in Range(Rules) :
                       Reported(r.name, f.file, i)
                          <=> Forbidden(r, line, InferLanguage(f.file))
                 /\ (Extension(f.file) = ".ts" /\ line = FetchLine) =>
                       Reported("no-fetch", f.file, i)
                 /\ (Extension(f.file) = ".ts" /\ line = SlashComment \o FetchLine) =>
                       \A r \in Range(Rules) : ~Reported(r.name, f.file, i)
                 /\ line = BasePathLine => ~Reported("no-raw-url", f.file, i)

\* A .ts file: a plain first line, and the fetch call on line 2 reported for
\* no-fetch and for no-raw-url.
C16_Witness ==
    /\ pc = "guarded"
    /\ generatedCode.files = <<File("client.ts", TextContent(<<PlainLine, FetchLine>>))>>
    /\ violations = <<Violation("no-fetch", "client.ts", 2),
                      Violation("no-raw-url", "client.ts", 2)>>

\* C17: a rule with a language list never reports a violation in a file whose
\* inferred language is outside the list (no no-axios in a .java file), while
\* no-raw-url, which has no language list, is evaluated for every scanned file,
\* files of unknown language included.
C17_LanguageScoping ==
    pc = "guarded" =>
        /\ \A k \in 1..Len(violations) : \A r \in Range(Rules) :
              (r.name = violations[k].rule /\ r.restricted) =>
                 InferLanguage(violations[k].file) \in r.languages
        /\ \A f \in ScannedFiles : \A i \in 1..Len(f.content.lines) :
              /\ Extension(f.file) = ".java" => ~Reported("no-axios", f.file, i)
              /\ (/\ ~IsComment(f.content.lines[i], InferLanguage(f.file))
                  /\ Test(Rules[7].pattern, f.content.lines[i])
                  /\ ~ShouldSkip(Rules[7], f.content.lines[i])) =>
                    Reported("no-raw-url", f.file, i)

\* A .java file with an axios call and a file of unknown language with a
\* fetch call: only the URL of the latter is reported.
C17_Witness ==
    /\ pc = "guarded"
    /\ \/ /\ generatedCode.files = <<File("Client.java", TextContent(<<AxiosLine>>))>>
          /\ violations = <<>>
       \/ /\ generatedCode.files = <<File("notes.txt", TextContent(<<FetchLine>>))>>
          /\ violations = <<Violation("no-raw-url", "notes.txt", 1)>>

----------------------------------------------------------------------------
(* Claims about guardrails, completion and emission in `implement` *)

\* Every file of the current task's file map is in the output directory with
\* the emitted content.
FilesInPlace ==
    \A k \in 1..Len(generatedCode.files) :
        outputDir.files[generatedCode.files[k].file] = generatedCode.files[k].content

\* The task at position i of the selection was validated with violations.
WarnedAt(i) ==
    \E k \in 1..Len(events) :
        events[k].kind = "warn" /\ events[k].task = tasksToImplement[i]

\* C18: guardrail violations never abort generation: validate is always
\* followed by the writing of the files (or, in a dry run, by the next task);
\* in a run that is no dry run a task with violations that got past its file
\* writes is completed with all its files in place, the only error after a
\* validation is a failed write, and the loop goes on to the following task.
C18_ViolationsNeverAbort ==
    /\ [][pc = "validate" =>
             /\ pc' = (IF options.dryRun THEN "next" ELSE "write")
             /\ outcome' = outcome
             /\ plan' = plan]_vars
    /\ [][(pc = "next" /\ taskIdx < Len(tasksToImplement)) =>
             (pc' = "start" /\ taskIdx' = taskIdx + 1)]_vars
    /\ []((pc = "next" /\ ~options.dryRun /\ violations # <<>>) =>
             /\ plan[CurrentTask].status = "completed"
             /\ FilesInPlace)
    /\ []((pc = "catch" /\ \E k \in 1..Len(events) :
                events[k].kind = "validate" /\ events[k].task = CurrentTask) =>
             outcome = Throw("Error", <<"write failed">>))

\* Two tasks, each with violations, both completed and saved.
C18_Witness ==
    /\ pc = "exited" /\ exitCode = "0" /\ ~options.dryRun
    /\ Len(tasksToImplement) = 2
    /\ WarnedAt(1) /\ WarnedAt(2)
    /\ violations # <<>>
    /\ \A i \in 1..2 : planFile[tasksToImplement[i]].status = "completed"

\* The file map generateForOperations emits for task t of the plan.
TaskFileMap(t) ==
    GenerateForLanguage(language,
                        ExtractOperations(spec, Filter(plan[t].operations)).value).files

\* Every file of task t's file map was written while t was implemented.
WrittenFor(t) ==
    \A k \in 1..Len(TaskFileMap(t)) :
        \E e \in 1..Len(events) :
            /\ events[e].kind = "write" /\ events[e].task = t
            /\ events[e].file = TaskFileMap(t)[k].file

\* C19: a task's status becomes completed, in memory or in the persisted
\* plan, only when every file of the task's emitted file set has been written.
C19_CompletedOnlyAfterWrites ==
    /\ [][\A t \in 1..Len(plan) :
             (t <= Len(plan') /\ plan[t].status # "completed"
                 /\ plan'[t].status = "completed") =>
                /\ WrittenFor(t)
                /\ t = CurrentTask /\ FilesInPlace /\ ~options.dryRun]_vars
    /\ [][\A t \in 1..Len(planFile) :
             (planFile[t].status # "completed" /\ planFile'[t].status = "completed") =>
                (WrittenFor(t) /\ ~options.dryRun)]_vars

\* A task that was pending is completed in the saved plan, its files written.
C19_Witness ==
    /\ pc = "exited" /\ exitCode = "0"
    /\ tasksToImplement # <<>>
    /\ planFile[tasksToImplement[1]].status = "completed"
    /\ Len(TaskFileMap(tasksToImplement[1])) = 3
    /\ WrittenFor(tasksToImplement[1])

\* The task implemented just before the current one, in this run, had the
\* same operation list: the output directory holds its emission.
SameInputsBefore ==
    /\ taskIdx > 1
    /\ plan[tasksToImplement[taskIdx - 1]].operations = plan[CurrentTask].operations

Ascending(S) ==
    CHOOSE s \in [1..Cardinality(S) -> S] :
        \A i, j \in 1..Cardinality(S) : i < j => s[i] < s[j]

\* The tasks of the plan file whose status is pending.
PendingTasks == {i \in 1..Len(planFile) : planFile[i].status = "pending"}

\* The tasks of the plan file that carry the id given with --task.
NamedTasks == {i \in 1..Len(planFile) : planFile[i].id = options.task}

\* The selection the claim describes, for the plan file as loaded.
ClaimedSelection ==
    IF options.task # NoValue THEN Ascending(NamedTasks)
    ELSE IF options.all THEN Ascending(PendingTasks)
    ELSE IF PendingTasks = {} THEN <<>>
    ELSE <<CHOOSE i \in PendingTasks : \A j \in PendingTasks : i <= j>>

\* The tasks generateForOperations was called for so far, in call order.
Started == [k \in 1..(IF pc = "start" THEN taskIdx - 1 ELSE taskIdx) |-> tasksToImplement[k]]

\* C26: task selection: with no option the first pending task of the plan (or
\* none), with --all the pending tasks in plan order, with --task <id> the
\* task with that id; the tasks implemented are the selected ones, in that
\* order, all of them when the command succeeds; an id absent from the plan
\* ends the command with an error, the plan file and the output directory
\* unchanged.
C26_TaskSelection ==
    /\ pc \notin {"select", "exited"} =>
          /\ tasksToImplement = ClaimedSelection
          /\ Started = SubSeq(ClaimedSelection, 1, Len(Started))
          /\ \A k \in 1..Len(events) :
                events[k].task # 0 => events[k].task \in Range(Started)
          /\ pc = "save" => Started = ClaimedSelection
    /\ (pc = "exited" /\ options.task # NoValue
        /\ \A i \in 1..Len(plan) : plan[i].id # options.task) =>
          /\ exitCode = "1"
          /\ planFile = plan
          /\ outputDir = NoDirectory
          /\ events = <<>>

\* --all on a plan whose first task is in progress and whose second is
\* pending: the second alone is implemented and saved as completed.
C26_Witness ==
    /\ pc = "exited" /\ exitCode = "0"
    /\ options.all /\ ~options.dryRun
    /\ Len(plan) = 2
    /\ tasksToImplement = <<2>>
    /\ planFile[1].status = "in-progress"
    /\ planFile[2].status = "completed"
    /\ \E k \in 1..Len(events) : events[k].kind = "write" /\ events[k].task = 2

\* The place of a status on the way pending, in-progress, completed.
Rank(status) ==
    CASE status = "pending" -> 0
      [] status = "in-progress" -> 1
      [] OTHER -> 2

\* C27: task status is monotone along pending, in-progress, completed: no
\* step of `implement`, whatever its options and the plan file it starts
\* from, moves a task's status backwards, and no files are generated for a
\* task the plan file records as completed.
C27_StatusMonotone ==
    /\ [][\A i \in 1..Len(plan) :
             Len(plan') = Len(plan) => Rank(plan'[i].status) >= Rank(plan[i].status)]_vars
    /\ [](pc # "exited" =>
             \A k \in 1..Len(events) :
                events[k].kind = "emit" => planFile[events[k].task].status # "completed")

\* No task of the plan file is in progress.
NoneInProgress(p) == \A i \in 1..Len(p) : p[i].status # "in-progress"

\* C28: the plan file never comes to record a task as in-progress and it is
\* rewritten only on full success: a plan file without in-progress task stays
\* so; the only step that changes it is the save after the loop of a run that
\* is no dry run, which marks every selected task completed and leaves the
\* other tasks as they were; a run that ends with an error has saved nothing.
C28_PlanSavedOnlyOnSuccess ==
    /\ [][NoneInProgress(planFile) => NoneInProgress(planFile')]_vars
    /\ [][planFile' # planFile =>
             /\ pc = "save" /\ ~options.dryRun
             /\ taskIdx = Len(tasksToImplement)
             /\ Len(planFile') = Len(planFile)
             /\ \A i \in 1..Len(planFile) :
                   planFile'[i] = IF i \in Range(tasksToImplement)
                                  THEN [planFile[i] EXCEPT !.status = "completed"]
                                  ELSE planFile[i]]_vars
    /\ []((pc = "exited" /\ (exitCode = "1" \/ options.dryRun)) =>
             \A k \in 1..Len(events) : events[k].kind # "save")

\* The second of two selected tasks fails after the files of the first were
\* written: the plan file still records the first as pending.
C28_Witness ==
    /\ pc = "exited" /\ exitCode = "1"
    /\ ~options.dryRun
    /\ tasksToImplement = <<1, 2>> /\ taskIdx = 2
    /\ outcome.kind = "throw"
    /\ \E k \in 1..Len(events) : events[k].kind = "write" /\ events[k].task = 1
    /\ plan[1].status = "completed"
    /\ planFile[1].status = "pending"
    /\ NoneInProgress(planFile)

\* C30: the emitter's own output passes the guardrails: for every supported
\* language and every non-empty operation list, Guardrails.validate applied
\* to the emitted file map returns no violation.
C30_EmittedCodePassesGuardrails ==
    (/\ pc \in {"write", "next"}
     /\ language \in SupportedLanguages
     /\ Len(operations.value) > 0
     /\ generatedCode = GenerateForLanguage(language, operations.value)) =>
        violations = <<>>

----------------------------------------------------------------------------
(* The `sync` command and fetchSpec *)

\* Most 'data' events of one response.
MaxChunks == 2

\* Values of --url: a well-formed http and https URL, one the URL parser
\* rejects, one with another scheme, the empty string, and none.
HttpUrl == <<"http://", "provider.example", "/openapi.yaml">>
HttpsUrl == <<"https://", "provider.example", "/openapi.yaml">>
MalformedUrl == <<"http://">>
FtpUrl == <<"ftp://", "provider.example", "/openapi.yaml">>
SyncUrls == {Null, Text(<<>>), Text(HttpUrl), Text(HttpsUrl), Text(MalformedUrl), Text(FtpUrl)}

\* Values of --file: none, a file that exists and one that does not.
LocalCopy == <<"contract.yaml">>
SyncFiles == {Null, Text(LocalCopy), Text(<<"missing.yaml">>)}
SyncOptions == [url : SyncUrls, file : SyncFiles]

\* A file on disk: whether it exists, and its text.
NoSpecFile == [exists |-> FALSE, content |-> <<>>]
OldSpecFile == [exists |-> TRUE, content |-> <<"openapi: 2.0">>]
LocalCopyContent == <<"openapi: 3.1.0">>

\* What the provider may answer: status codes, body chunks, and the messages of
\* the request's and the response's 'error' events.
SyncStatusCodes == {200, 204, 301, 404, 500}
Chunks == {"openapi: 3.0.0\n", "paths: {}\n"}
ConnectErrors == {"connect ECONNREFUSED", "getaddrinfo ENOTFOUND"}
ResponseErrors == {"aborted"}

\* The HTTP exchange: the response's statusCode (0: no response yet), whether
\* 'end' was emitted, and the message of the 'error' event ("": none).
NoExchange == [statusCode |-> 0, complete |-> FALSE, error |-> ""]

SyncLog(kind, text) == [kind |-> kind, text |-> text]

\* JavaScript truthiness of an optional text.
TruthyText(t) == ~t.null /\ t.text # <<>>

\* String(err) of an Error.
ErrorString(o) == <<o.exception, ": ">> \o o.message

\* http.get / https.get parse the URL and throw on one without a host.
WellFormedUrl(u) == Len(u) > 1

InitSync ==
    /\ pc = "sync"
    /\ options \in SyncOptions
    /\ specFile \in {NoSpecFile, OldSpecFile}
    /\ requests = <<>>
    /\ data = <<>>
    /\ response = NoExchange
    /\ outcome = NoOutcome
    /\ events = <<>>
    /\ exitCode = "running"
    /\ spec = Unused /\ filterOperationIds = Unused /\ operations = Unused
    /\ language = Unused
    /\ op = Unused /\ args = Unused /\ path = Unused /\ query = Unused
    /\ planFile = Unused /\ plan = Unused
    /\ tasksToImplement = Unused /\ taskIdx = Unused /\ generatedCode = Unused
    /\ fileIdx = Unused /\ outputDir = Unused /\ violations = Unused
    /\ intent = Unused /\ tasks = Unused /\ planOutput = Unused

\* What no step of `sync` changes.
SyncFrame ==
    /\ UNCHANGED <<options, language, op, args, path, query>>
    /\ UNCHANGED extractVars
    /\ UNCHANGED <<planFile, plan, tasksToImplement, taskIdx, generatedCode, fileIdx,
                   outputDir, violations>>
    /\ UNCHANGED planVars

\* The action's branch on the options: fetch, copy a local file, or fail.
SyncStart ==
    /\ pc = "sync"
    /\ IF TruthyText(options.url)
       THEN /\ pc' = "fetch"
            /\ UNCHANGED <<specFile, events, exitCode>>
       ELSE IF TruthyText(options.file)
       THEN IF options.file.text = LocalCopy
            THEN /\ specFile' = [exists |-> TRUE, content |-> LocalCopyContent]
                 /\ events' = Append(events, SyncLog("success", options.file.text))
                 /\ pc' = "exited" /\ exitCode' = "0"
            ELSE /\ events' = Append(events, SyncLog("error",
                                   <<"File not found: ">> \o options.file.text))
                 /\ pc' = "exited" /\ exitCode' = "1"
                 /\ UNCHANGED specFile
       ELSE /\ events' = Append(events, SyncLog("error",
                              <<"Please provide --url <url> or --file <path>">>))
            /\ pc' = "exited" /\ exitCode' = "1"
            /\ UNCHANGED specFile
    /\ UNCHANGED <<requests, data, response, outcome>>
    /\ SyncFrame

\* fetchSpec up to client.get: the URL checks, the choice of client, and the
\* request (a URL client.get cannot parse makes it throw inside the executor).
FetchRequest ==
    /\ pc = "fetch"
    /\ LET url == options.url.text
       IN IF Head(url) \notin {"http://", "https://"}
          THEN /\ outcome' = Throw("Error", <<"Invalid URL: ">> \o url
                                 \o <<". URL must start with http:// or https://">>)
               /\ pc' = "sync_catch"
               /\ UNCHANGED requests
          ELSE IF ~WellFormedUrl(url)
          THEN /\ outcome' = Throw("Error", <<"Invalid URL format: ">> \o url)
               /\ pc' = "sync_catch"
               /\ UNCHANGED requests
          ELSE /\ requests' = Append(requests,
                     [client |-> IF Head(url) = "https://" THEN "https" ELSE "http",
                      url |-> url])
               /\ pc' = "await"
               /\ UNCHANGED outcome
    /\ UNCHANGED <<specFile, data, response, events, exitCode>>
    /\ SyncFrame

\* The request's 'error' event before any response.
FetchConnectError ==
    /\ pc = "await"
    /\ \E cause \in ConnectErrors :
          /\ response' = [response EXCEPT !.error = cause]
          /\ outcome' = Throw("Error", <<"Failed to connect to ">> \o options.url.text
                                          \o <<": ", cause>>)
    /\ pc' = "sync_catch"
    /\ UNCHANGED <<specFile, requests, data, events, exitCode>>
    /\ SyncFrame

\* The response callback: any status other than 200 rejects.
FetchResponse ==
    /\ pc = "await"
    /\ \E code \in SyncStatusCodes :
          /\ response' = [response EXCEPT !.statusCode = code]
          /\ IF code # 200
             THEN /\ outcome' = Throw("Error", <<"HTTP ", ToString(code),
                                       ": Failed to fetch spec from ">> \o options.url.text)
                  /\ pc' = "sync_catch"
             ELSE /\ pc' = "body"
                  /\ UNCHANGED outcome
    /\ data' = <<>>
    /\ UNCHANGED <<specFile, requests, events, exitCode>>
    /\ SyncFrame

\* res.on('data', chunk => data += chunk)
FetchData ==
    /\ pc = "body"
    /\ Len(data) < MaxChunks
    /\ \E chunk \in Chunks : data' = Append(data, chunk)
    /\ UNCHANGED <<pc, specFile, requests, response, outcome, events, exitCode>>
    /\ SyncFrame

\* res.on('end', () => resolve(data))
FetchEnd ==
    /\ pc = "body"
    /\ response' = [response EXCEPT !.complete = TRUE]
    /\ outcome' = Return(Text(data))
    /\ pc' = "sync_write"
    /\ UNCHANGED <<specFile, requests, data, events, exitCode>>
    /\ SyncFrame

\* res.on('error', reject): the response's own error is the rejection.
FetchResponseError ==
    /\ pc = "body"
    /\ \E cause \in ResponseErrors :
          /\ response' = [response EXCEPT !.error = cause]
          /\ outcome' = Throw("Error", <<cause>>)
    /\ pc' = "sync_catch"
    /\ UNCHANGED <<specFile, requests, data, events, exitCode>>
    /\ SyncFrame

\* fs.writeFileSync(specPath, content) after the await, inside the try: it
\* writes the file, or throws when the file cannot be opened.
SyncWrite ==
    /\ pc = "sync_write"
    /\ \/ /\ specFile' = [exists |-> TRUE, content |-> outcome.value.text]
          /\ events' = Append(events, SyncLog("success", <<"Saved to: ", "openapi.yaml">>))
          /\ pc' = "exited" /\ exitCode' = "0"
          /\ UNCHANGED outcome
       \/ /\ outcome' = Throw("Error", <<"EACCES: permission denied, open ", "openapi.yaml">>)
          /\ pc' = "sync_catch"
          /\ UNCHANGED <<specFile, events, exitCode>>
    /\ UNCHANGED <<requests, data, response>>
    /\ SyncFrame

\* catch (err): spinner.fail, error(String(err)), process.exit(1).
SyncCatch ==
    /\ pc = "sync_catch"
    /\ events' = Append(events, SyncLog("error", ErrorString(outcome)))
    /\ pc' = "exited" /\ exitCode' = "1"
    /\ UNCHANGED <<specFile, requests, data, response, outcome>>
    /\ SyncFrame

NextSync ==
    \/ SyncStart
    \/ FetchRequest
    \/ FetchConnectError
    \/ FetchResponse
    \/ FetchData
    \/ FetchEnd
    \/ FetchResponseError
    \/ SyncWrite
    \/ SyncCatch

SpecSync == InitSync /\ [][NextSync]_vars

----------------------------------------------------------------------------
(* Claims about the `sync` command *)

\* text occurs in message.
Names(message, text) ==
    \E i \in 1..(Len(message) - Len(text) + 1) :
        SubSeq(message, i, i + Len(text) - 1) = text

\* The fetch ran into a response whose status is not 200, or into an error of
\* the connection.
FetchFailed == response.statusCode \notin {0, 200} \/ response.error # ""

\* The error the command printed names the text.
Printed(text) ==
    \E i \in 1..Len(events) : events[i].kind = "error" /\ Names(events[i].text, text)

\* C21: a fetch that meets a status other than 200 or a connection error
\* ends the command with code 1 after exactly one request, the error printed
\* names the URL and the status or the cause, the local contract file is not
\* changed by a failed fetch, and it is written only once a 200 response has
\* ended.
C21_SyncFailureTerminal ==
    /\ []((pc = "exited" /\ FetchFailed) =>
             /\ exitCode = "1"
             /\ Len(requests) = 1
             /\ Printed(options.url.text)
             /\ \/ response.statusCode # 0 /\ Printed(<<ToString(response.statusCode)>>)
                \/ response.error # "" /\ Printed(<<response.error>>))
    /\ [][(FetchFailed \/ FetchFailed') => specFile' = specFile]_vars
    /\ [][specFile' # specFile =>
             (TruthyText(options.url) =>
                 response.statusCode = 200 /\ response.complete)]_vars

----------------------------------------------------------------------------
(* Parameter types: schemaToType and the language projections *)

\* Most parameters of the operation whose parameter list is rendered.
MaxParams == 2

ToJavaType(type) ==
    CASE type = "number" -> "Integer"
      [] type = "string" -> "String"
      [] type = "boolean" -> "Boolean"
      [] type = "array" -> "List<?>"
      [] OTHER -> "Object"

ToTypeScriptType(type) ==
    CASE type = "number" -> "number"
      [] type = "string" -> "string"
      [] type = "boolean" -> "boolean"
      [] type = "array" -> "any[]"
      [] OTHER -> "any"

ToPythonType(type) ==
    CASE type = "number" -> "int"
      [] type = "string" -> "str"
      [] type = "boolean" -> "bool"
      [] type = "array" -> "list"
      [] OTHER -> "any"

\* Parameter.schema values: no schema, a schema without `type` (a bare `$ref`),
\* the JSON-schema types, an unknown type string and an empty one.
NoSchema == [defined |-> FALSE, type |-> NoValue]
RefOnlySchema == [defined |-> TRUE, type |-> NoValue]
ParamSchemas ==
    {NoSchema, RefOnlySchema}
    \cup {[defined |-> TRUE, type |-> t] :
             t \in {"integer", "number", "string", "boolean", "array", "object", "uuid", ""}}

\* The i-th parameter's name.
ParamNames == <<"limit", "tag", "id", "name">>

\* Operation.parameters of up to MaxParams parameters.
ParameterLists ==
    UNION {{[i \in 1..n |-> [name |-> ParamNames[i], in |-> loc[i], schema |-> sch[i]]] :
               loc \in [1..n -> {"path", "query"}], sch \in [1..n -> ParamSchemas]} :
           n \in 1..MaxParams}

\* Array.prototype.filter on params by location.
RECURSIVE ParamsAt(_, _)
ParamsAt(params, loc) ==
    IF params = <<>> THEN <<>>
    ELSE (IF Head(params).in = loc THEN <<Head(params)>> ELSE <<>>)
         \o ParamsAt(Tail(params), loc)

\* The pieces of a rendered parameter list, one per parameter: the Java
\* service lists path parameters (as String) before query parameters.
MethodParams(lang, params) ==
    CASE lang = "java" ->
           LET pathParams == ParamsAt(params, "path")
               queryParams == ParamsAt(params, "query")
           IN [i \in 1..Len(pathParams) |-> <<"String", " ", pathParams[i].name>>]
              \o [i \in 1..Len(queryParams) |->
                     <<ToJavaType(queryParams[i].type), " ", queryParams[i].name>>]
      [] lang = "typescript" ->
           [i \in 1..Len(params) |->
               <<params[i].name, ": ", ToTypeScriptType(params[i].type)>>]
      [] OTHER ->
           [i \in 1..Len(params) |->
               <<ToSnakeCase(params[i].name), ": ", ToPythonType(params[i].type)>>]

InitTypes ==
    /\ pc = "map"
    /\ language \in SupportedLanguages
    /\ op \in [parameters : ParameterLists, params : {<<>>}]
    /\ args = <<>>
    /\ outcome = NoOutcome
    /\ path = Unused /\ query = Unused /\ response = Unused
    /\ spec = Unused /\ filterOperationIds = Unused /\ operations = Unused
    /\ options = Unused /\ planFile = Unused /\ plan = Unused
    /\ tasksToImplement = Unused /\ taskIdx = Unused /\ generatedCode = Unused
    /\ fileIdx = Unused /\ outputDir = Unused /\ events = Unused
    /\ exitCode = Unused /\ violations = Unused
    /\ intent = Unused /\ tasks = Unused /\ planOutput = Unused
    /\ specFile = Unused /\ requests = Unused /\ data = Unused

TypesFrame ==
    /\ UNCHANGED <<language, path, query, response>>
    /\ UNCHANGED extractVars
    /\ UNCHANGED implementVars
    /\ UNCHANGED planVars
    /\ UNCHANGED syncVars

\* extractOperations: params = (op.parameters || []).map(...)
MapParams ==
    /\ pc = "map"
    /\ op' = [op EXCEPT !.params =
                 [i \in 1..Len(op.parameters) |->
                     [name |-> op.parameters[i].name,
                      type |-> SchemaToType(op.parameters[i].schema),
                      in |-> op.parameters[i].in]]]
    /\ pc' = "render"
    /\ UNCHANGED <<args, outcome>>
    /\ TypesFrame

\* The service generator of the language renders the parameter list.
RenderParams ==
    /\ pc = "render"
    /\ args' = MethodParams(language, op.params)
    /\ outcome' = Return(Text(JoinWith(MethodParams(language, op.params), <<", ">>)))
    /\ pc' = "rendered"
    /\ UNCHANGED op
    /\ TypesFrame

NextTypes ==
    \/ MapParams
    \/ RenderParams

SpecTypes == InitTypes /\ [][NextTypes]_vars

----------------------------------------------------------------------------
(* Claims about the type mapping *)

\* The type name the claim gives a schema in a language: integer is a number,
\* the other known types have a name of their own, anything else the fallback.
ClaimedTypeName(schema, lang) ==
    LET known == IF schema.defined
                    /\ schema.type \in {"integer", "number", "string", "boolean", "array"}
                 THEN schema.type ELSE "unknown"
        names == [java |-> [integer |-> "Integer", number |-> "Integer", string |-> "String",
                            boolean |-> "Boolean", array |-> "List<?>", unknown |-> "Object"],
                  typescript |-> [integer |-> "number", number |-> "number",
                                  string |-> "string", boolean |-> "boolean",
                                  array |-> "any[]", unknown |-> "any"],
                  python |-> [integer |-> "int", number |-> "int", string |-> "str",
                              boolean |-> "bool", array |-> "list", unknown |-> "any"]]
    IN names[lang][known]

\* The rendered piece of the parameter named n, <<>> when there is none.
PieceOf(n) ==
    IF \E i \in 1..Len(args) : n \in Range(args[i])
    THEN args[CHOOSE i \in 1..Len(args) : n \in Range(args[i])]
    ELSE <<>>

\* The parameters whose type the language's projection renders.
Typed(p) == language # "java" \/ p.in = "query"

\* C22: the type mapping never fails: every parameter, whatever its schema
\* (none, a bare $ref, object, an unknown type string), is rendered with a
\* type name, integer as the language's number type and every unmapped shape
\* as the language's fallback (Object, any, any).
C22_TypeMappingTotal ==
    pc = "rendered" =>
        /\ outcome.kind = "return"
        /\ Len(args) = Len(op.parameters)
        /\ \A i \in 1..Len(op.parameters) :
              Typed(op.parameters[i]) =>
                 PieceOf(op.parameters[i].name) =
                    IF language = "java"
                    THEN <<ClaimedTypeName(op.parameters[i].schema, language), " ",
                           op.parameters[i].name>>
                    ELSE <<op.parameters[i].name, ": ",
                           ClaimedTypeName(op.parameters[i].schema, language)>>

\* A Python parameter list with an integer parameter and one whose schema is
\* a bare $ref.
C22_Witness ==
    /\ pc = "rendered" /\ language = "python"
    /\ Len(op.parameters) = 2
    /\ op.parameters[1].schema = [defined |-> TRUE, type |-> "integer"]
    /\ op.parameters[2].schema = RefOnlySchema
    /\ outcome.value.text = <<"limit", ": ", "int", ", ", "tag", ": ", "any">>

----------------------------------------------------------------------------
(* Specification of the task title: one call of extractTaskTitle. *)

\* How far past TitleLimit the longest intent goes.
MaxOver == 2

\* Intents as their characters: a first character (lower case, upper case,
\* sharp s, a space) followed by a run of one character, of every length up
\* to TitleLimit + MaxOver, and the empty intent.
TitleIntents ==
    {<<>>} \cup
    {<<c>> \o [i \in 1..n |-> f] :
        c \in {"c", "G", "ß", " "}, f \in {"e", "T"}, n \in 0..(TitleLimit + MaxOver - 1)}

InitTitle ==
    /\ pc = "title"
    /\ intent \in TitleIntents
    /\ tasks = <<>>
    /\ planOutput = Unused
    /\ spec = Unused /\ filterOperationIds = Unused /\ operations = Unused
    /\ language = Unused
    /\ op = Unused /\ args = Unused /\ path = Unused /\ query = Unused
    /\ response = Unused /\ outcome = Unused
    /\ options = Unused /\ planFile = Unused /\ plan = Unused
    /\ tasksToImplement = Unused /\ taskIdx = Unused /\ generatedCode = Unused
    /\ fileIdx = Unused /\ outputDir = Unused /\ events = Unused
    /\ exitCode = Unused /\ violations = Unused
    /\ specFile = Unused /\ requests = Unused /\ data = Unused

\* title: extractTaskTitle(intent) of the task analyzeIntentAndCreateTasks builds.
TaskTitle ==
    /\ pc = "title"
    /\ tasks' = <<[title |-> ExtractTaskTitle(intent)]>>
    /\ pc' = "titled"
    /\ UNCHANGED <<intent, planOutput, language>>
    /\ UNCHANGED extractVars
    /\ UNCHANGED clientVars
    /\ UNCHANGED implementVars
    /\ UNCHANGED syncVars

NextTitle == TaskTitle

SpecTitle == InitTitle /\ [][NextTitle]_vars

----------------------------------------------------------------------------
(* Claims about the task title *)

\* The upper case of one character, as Unicode defines it for the characters
\* of TitleIntents.
UpperCaseOf(c) ==
    CASE c = "c" -> <<"C">>
      [] c = "ß" -> <<"S", "S">>
      [] OTHER -> <<c>>

\* The intent with its first character upper-cased.
Capitalized(chars) ==
    IF chars = <<>> THEN <<>> ELSE UpperCaseOf(chars[1]) \o Tail(chars)

Dots == <<".", ".", ".">>

\* C25 as stated: the title is at most 50 characters long; an intent of at
\* most 50 characters is kept whole with its first character upper-cased, and
\* a longer one is cut to its first 47 characters (the first upper-cased)
\* followed by `...`.
C25_TitleBoundedByIntentLength ==
    pc = "titled" =>
        /\ Len(tasks[1].title) <= 50
        /\ Len(intent) <= 50 => tasks[1].title = Capitalized(intent)
        /\ Len(intent) > 50 => tasks[1].title = SubSeq(Capitalized(intent), 1, 47) \o Dots

\* C25 (amended): the title is at most 50 characters long; it is the intent
\* with its first character upper-cased when that text is at most 50
\* characters long, and otherwise the first 47 characters of that text
\* followed by `...`.
C25_TitleBounded ==
    pc = "titled" =>
        /\ Len(tasks[1].title) <= 50
        /\ Len(Capitalized(intent)) <= 50 => tasks[1].title = Capitalized(intent)
        /\ Len(Capitalized(intent)) > 50 =>
              tasks[1].title = SubSeq(Capitalized(intent), 1, 47) \o Dots

\* An intent of 50 characters whose first character has a two-character upper
\* case: the title is cut.
C25_Witness ==
    /\ pc = "titled"
    /\ Len(intent) = 50 /\ intent[1] = "ß"
    /\ Len(tasks[1].title) = 50
    /\ SubSeq(tasks[1].title, 48, 50) = Dots
    /\ SubSeq(tasks[1].title, 1, 2) = <<"S", "S">>

====
